---- MODULE Spec2Model ----
(***************************************************************************)
(* A model of the chatgptputer agent: the posting gate                     *)
(* (src/src/integrations/twitter.js), the sandbox and the memory store     *)
(* (src/src/core/memory.js).  Each component has its own specification     *)
(* over the shared variables; the other components stay at their initial   *)
(* values.                                                                 *)
(***************************************************************************)
EXTENDS Integers, Sequences, FiniteSets, TLC

VARIABLES
  now,               \* the wall clock, in ticks (Date.now())
  enabled,           \* TwitterIntegration.enabled
  credentials,       \* apiKey && authSession && proxy are all set
  minTweetInterval,  \* TwitterIntegration.minTweetInterval
  dailyTweetLimit,   \* TwitterIntegration.dailyTweetLimit
  lastTweetTime,     \* TwitterIntegration.lastTweetTime
  tweetsToday,       \* TwitterIntegration.tweetsToday
  lastResetDate,     \* TwitterIntegration.lastResetDate
  tweetPc,           \* "idle", or "posting" while tweet() awaits the transport
  successTimes,      \* history: the instants of the successful emissions
  lastCall,          \* history: the most recent tweet() call
  tweetResult,       \* the value the last finished tweet() call returned
  fs,                \* the filesystem: absolute path -> directory or file
  sandboxOp,         \* the last sandbox operation, its input and its result
  programsRun,       \* history: the programs the shell has started
  sandboxCalls,      \* history: the number of sandbox operations called
  sessionMemory,     \* MemorySystem.sessionMemory
  longTermMemory,    \* MemorySystem.longTermMemory
  experiences,       \* MemorySystem.experiences
  projects,          \* MemorySystem.projects
  memoryOp,          \* the last store operation and the lengths it found
  memoryCalls,       \* history: the number of addThought/addAction calls
  projectOp,         \* history: the last project operation and its result
  disk,              \* the three resources under memoryPath
  persistOp,         \* history: the last saveMemories/loadMemories call
  context,           \* what the last getContextForAI() returned
  cyclePc,           \* where autonomousLoop / thinkAndAct stands
  isRunning,         \* ChatGPTputer.isRunning
  maxActionsPerCycle,\* ChatGPTputer.maxActionsPerCycle
  actionsThisCycle,  \* thinkAndAct's counter
  actionPlan,        \* the action of the directive planAction returned
  actionOutcome,     \* what the last executeAction returned
  cycles,            \* history: the number of sleeps of the loop
  cycleLog,          \* history of the current cycle
  shutdown,          \* the gracefulShutdown() calls and where each stands
  processExited,     \* process.exit(0) has been called
  request,           \* history: the first shutdown request and what it found
  thought,           \* the text ai.think returned
  thoughtType,       \* what classifyThought made of it ("none": not called)
  response,          \* the completion planAction received (failed: no lines)
  directive,         \* the directive planAction returned
  formatted,         \* the last formatForTwitter call: its content and result
  loading,           \* the constructor's init(): where its loadMemories stands
  walk               \* getWorkspaceInfo(): the getDirectoryStats calls under way

gateVars == <<now, enabled, credentials, minTweetInterval, dailyTweetLimit,
              lastTweetTime, tweetsToday, lastResetDate, tweetPc,
              successTimes, lastCall, tweetResult>>

sandboxVars == <<fs, sandboxOp, programsRun, sandboxCalls>>

memoryVars == <<sessionMemory, longTermMemory, experiences, projects,
                memoryOp, memoryCalls, projectOp>>

persistVars == <<disk, persistOp>>

shutdownVars == <<shutdown, processExited, request>>

callVars == <<formatted, loading, walk>>

oracleVars == <<thought, thoughtType, response, directive, callVars>>

loopVars == <<context, cyclePc, isRunning, maxActionsPerCycle,
              actionsThisCycle, actionPlan, actionOutcome, cycles, cycleLog,
              shutdownVars, oracleVars>>

vars == <<gateVars, sandboxVars, memoryVars, persistVars, loopVars>>

(***************************************************************************)
(* Bounds of the model.                                                    *)
(***************************************************************************)
\* Ticks in one local calendar day.
TicksPerDay == 4
\* The clock at construction; lastTweetTime starts at 0, far in the past.
StartTime == 5
\* The clock stops advancing MaxElapsed ticks after construction.
MaxElapsed == 7
\* The number of successful emissions of a run.
MaxSuccesses == 3
\* The largest configured TWITTER_MIN_INTERVAL and TWITTER_DAILY_LIMIT.
MaxInterval == 2
MaxDailyLimit == 2
\* The number of sandbox operations of a run.
MaxOps == 2
\* The number of addThought/addAction calls of a run.
MaxMemoryCalls == 53
\* The number of consolidateMemories calls of a run.
MaxConsolidations == 2
\* The number of project operations of a run, the size of the registry and
\* the ticks that pass while the registry is worked on.
MaxProjectCalls == 5
MaxProjects == 4
MaxProjectElapsed == 2
\* The size of the registry the project handlers work on.
MaxRegistry == 6
\* The number of calls of a run of the project handlers.
MaxHandlerCalls == 4
\* The ticks that pass while the project handlers run.
MaxHandlerElapsed == 1
\* The number of formatForTwitter calls of a run.
MaxFormatCalls == 1
\* The number of addAction and addProject calls, and of consolidateMemories
\* calls, of a run whose load is pending.
MaxRaceCalls == 2
MaxRaceConsolidations == 1
\* The number of calls of a run of saveMemories, loadMemories and the
\* operations between them, and the records of a loaded resource.
MaxPersistSteps == 4
MaxLoaded == 2
\* The number of addThought, addAction and getContextForAI calls of a run
\* that reads the context.
MaxContextCalls == 7
\* The number of times the loop sleeps and starts another cycle, and the
\* number of records the cycles of a run add to the store.
MaxCycles == 2
MaxLoopRecords == 5
\* The largest configured MAX_ACTIONS_PER_CYCLE.
MaxActions == 2
\* The number of words of a thought, and of lines of a completion.
MaxWords == 2
MaxLines == 3
\* The number of gracefulShutdown() calls a run of the agent makes, and the
\* number of times its loop sleeps and starts another cycle.
MaxSignals == 1
MaxAgentCycles == 1
\* A run starts with a burst of plain thoughts: until the session buffer
\* holds WarmUp records, the only call is addThought(_, 'thought').
WarmUp == 48
\* How many records short of its cap the loaded experience log may be.
MaxHeadroom == 2

(***************************************************************************)
(* The posting gate.                                                       *)
(***************************************************************************)
\* new Date().toDateString(): the local calendar day of an instant.
DateString(t) == t \div TicksPerDay

\* isEnabled()
IsEnabled == enabled /\ credentials

\* A gate that ignores the interval.
CanTweetNoInterval == IsEnabled

\* canTweet(): enabled and the interval has elapsed.  The daily count is not
\* read here.
CanTweet == IsEnabled /\ (now - lastTweetTime >= minTweetInterval)

\* The contents tweet() is called with, as far as shouldTweetContent reads
\* them: the length, whether an operational-error marker occurs, whether one
\* of the interesting keywords occurs.
Contents ==
  { [length |-> l, marker |-> m, keyword |-> k] :
      l \in {10, 40, 60}, m \in BOOLEAN, k \in BOOLEAN }

TweetableTypes ==
  {"poem", "philosophy", "joke", "thought", "story", "creative_expression"}

ContentTypes == {"poem", "art"}

\* shouldTweetContent(content, type)
ShouldTweetContent(content, type) ==
  IF content.length < 30 THEN FALSE
  ELSE IF content.marker THEN FALSE
  ELSE IF type \in TweetableTypes THEN TRUE
  ELSE IF content.keyword THEN TRUE
  ELSE content.length > 50

\* resetDailyCountIfNeeded(): called by getStatus() only.
ResetDailyCountIfNeeded ==
  IF DateString(now) # lastResetDate
    THEN /\ tweetsToday' = 0
         /\ lastResetDate' = DateString(now)
    ELSE UNCHANGED <<tweetsToday, lastResetDate>>

NoResult == [success |-> FALSE, kind |-> "none"]

NoCall == [at |-> 0, count |-> 0, sent |-> FALSE, first |-> FALSE, prev |-> 0]

\* The history's record of a call: when canTweet was evaluated, the count the
\* gate held then, whether the transport was called, whether the call is the
\* first event of its calendar day (no call evaluated and no emission made on
\* that day before it), and the instant of the last successful emission
\* before it (0: none).
CallRecord(sent) ==
  [at |-> now, count |-> tweetsToday, sent |-> sent,
   first |-> /\ (lastCall = NoCall \/ DateString(lastCall.at) # DateString(now))
             /\ \A i \in DOMAIN successTimes :
                   DateString(successTimes[i]) # DateString(now),
   prev |-> IF successTimes = <<>> THEN 0
            ELSE successTimes[Len(successTimes)]]

\* tweet(content, type), up to the await of the transport call.
TweetCall(content, type) ==
  /\ tweetPc = "idle"
  /\ Len(successTimes) < MaxSuccesses
  /\ IF ~CanTweet
       THEN /\ tweetResult' = [success |-> FALSE, kind |-> "rate"]
            /\ lastCall' = CallRecord(FALSE)
            /\ UNCHANGED tweetPc
       ELSE IF ~ShouldTweetContent(content, type)
         THEN /\ tweetResult' = [success |-> FALSE, kind |-> "unsuitable"]
              /\ lastCall' = CallRecord(FALSE)
              /\ UNCHANGED tweetPc
         ELSE /\ tweetPc' = "posting"
              /\ lastCall' = CallRecord(TRUE)
              /\ UNCHANGED tweetResult
  /\ UNCHANGED <<now, enabled, credentials, minTweetInterval, dailyTweetLimit,
                 lastTweetTime, tweetsToday, lastResetDate, successTimes,
                 sandboxVars, memoryVars, persistVars, loopVars>>

\* A tweet() that advances the gate whatever the transport answers.
TweetReturnAlwaysCounts(status) ==
  /\ tweetPc = "posting"
  /\ tweetPc' = "idle"
  /\ lastTweetTime' = now
  /\ tweetsToday' = tweetsToday + 1
  /\ tweetResult' = IF status = "success"
                    THEN [success |-> TRUE, kind |-> "sent"]
                    ELSE [success |-> FALSE, kind |-> status]
  /\ successTimes' = Append(successTimes, now)
  /\ UNCHANGED <<now, enabled, credentials, minTweetInterval, dailyTweetLimit,
                 lastResetDate, lastCall, sandboxVars, memoryVars,
                 persistVars, loopVars>>

\* tweet(), from the transport's answer on: status is "success", an error
\* response ("error") or a thrown exception ("throw").
TweetReturn(status) ==
  /\ tweetPc = "posting"
  /\ tweetPc' = "idle"
  /\ IF status = "success"
       THEN /\ lastTweetTime' = now
            /\ tweetsToday' = tweetsToday + 1
            /\ tweetResult' = [success |-> TRUE, kind |-> "sent"]
            /\ successTimes' = Append(successTimes, now)
       ELSE /\ tweetResult' = [success |-> FALSE, kind |-> status]
            /\ UNCHANGED <<lastTweetTime, tweetsToday, successTimes>>
  /\ UNCHANGED <<now, enabled, credentials, minTweetInterval, dailyTweetLimit,
                 lastResetDate, lastCall, sandboxVars, memoryVars, persistVars, loopVars>>

\* getStatus()
GetStatus ==
  /\ ResetDailyCountIfNeeded
  /\ UNCHANGED <<now, enabled, credentials, minTweetInterval, dailyTweetLimit,
                 lastTweetTime, tweetPc, successTimes, lastCall,
                 tweetResult, sandboxVars, memoryVars, persistVars, loopVars>>

\* The clock advances.
Tick ==
  /\ now < StartTime + MaxElapsed
  /\ now' = now + 1
  /\ UNCHANGED <<enabled, credentials, minTweetInterval, dailyTweetLimit,
                 lastTweetTime, tweetsToday, lastResetDate, tweetPc,
                 successTimes, lastCall, tweetResult, sandboxVars, memoryVars, persistVars, loopVars>>

\* new TwitterIntegration(): enabled only with all credentials present.
GateInit ==
  /\ now = StartTime
  /\ credentials \in BOOLEAN
  /\ enabled \in {e \in BOOLEAN : e => credentials}
  /\ minTweetInterval \in 1..MaxInterval
  /\ dailyTweetLimit \in 1..MaxDailyLimit
  /\ lastTweetTime = 0
  /\ tweetsToday = 0
  /\ lastResetDate = DateString(StartTime)
  /\ tweetPc = "idle"
  /\ successTimes = <<>>
  /\ lastCall = NoCall
  /\ tweetResult = NoResult

GateNext ==
  \/ \E content \in Contents, type \in ContentTypes : TweetCall(content, type)
  \/ \E status \in {"success", "error", "throw"} : TweetReturn(status)
  \/ GetStatus
  \/ Tick

\* A gate constructed without credentials.
GateOff ==
  /\ GateInit
  /\ ~credentials
  /\ minTweetInterval = MaxInterval
  /\ dailyTweetLimit = MaxDailyLimit

(***************************************************************************)
(* Paths.  A string is a sequence of one-character strings, so that        *)
(* String.prototype.startsWith, path.join, path.resolve and path.extname   *)
(* are computed character by character as node computes them (POSIX).      *)
(***************************************************************************)
Slash == "/"
Dot == <<".">>
DotDot == <<".", ".">>

\* The pieces of s between the separators, empty pieces dropped.
RECURSIVE SplitFrom(_, _, _, _)
SplitFrom(s, sep, i, cur) ==
  IF i > Len(s)
    THEN IF cur = <<>> THEN <<>> ELSE <<cur>>
    ELSE IF s[i] = sep
      THEN (IF cur = <<>> THEN <<>> ELSE <<cur>>) \o SplitFrom(s, sep, i + 1, <<>>)
      ELSE SplitFrom(s, sep, i + 1, Append(cur, s[i]))

Segments(s) == SplitFrom(s, Slash, 1, <<>>)

\* path.normalize on the segments of an absolute path: "." is dropped, ".."
\* removes the segment before it (and nothing at the filesystem root).
RECURSIVE NormalizeFrom(_, _, _)
NormalizeFrom(segs, i, stack) ==
  IF i > Len(segs) THEN stack
  ELSE IF segs[i] = Dot THEN NormalizeFrom(segs, i + 1, stack)
  ELSE IF segs[i] = DotDot
    THEN NormalizeFrom(segs, i + 1,
           IF stack = <<>> THEN <<>> ELSE SubSeq(stack, 1, Len(stack) - 1))
  ELSE NormalizeFrom(segs, i + 1, Append(stack, segs[i]))

RECURSIVE Render(_)
Render(segs) ==
  IF segs = <<>> THEN <<>>
  ELSE <<Slash>> \o Head(segs) \o Render(Tail(segs))

\* The absolute path string of a list of segments.
PathOf(segs) == IF segs = <<>> THEN <<Slash>> ELSE Render(segs)

\* path.resolve(p), p absolute.
Resolve(p) == PathOf(NormalizeFrom(Segments(p), 1, <<>>))

\* path.join(a, b), a absolute: normalize(a + "/" + b).
Join(a, b) == Resolve(a \o <<Slash>> \o b)

\* String.prototype.startsWith
StartsWith(s, prefix) ==
  /\ Len(prefix) <= Len(s)
  /\ SubSeq(s, 1, Len(prefix)) = prefix

\* The segments of d are a prefix of the segments of p: p is d or below d.
IsWithin(p, d) ==
  LET ps == Segments(p)
      ds == Segments(d)
  IN  /\ Len(ds) <= Len(ps)
      /\ SubSeq(ps, 1, Len(ds)) = ds

\* path.dirname(p), p absolute and normalized.
Dirname(p) ==
  LET segs == Segments(p)
  IN  IF segs = <<>> THEN <<Slash>> ELSE PathOf(SubSeq(segs, 1, Len(segs) - 1))

\* p and its ancestors, the filesystem root included.
SelfAndAncestors(p) ==
  LET segs == Segments(p)
  IN  {PathOf(SubSeq(segs, 1, k)) : k \in 0..Len(segs)}

\* The index of the last "." of s (0: none).
RECURSIVE LastDot(_, _)
LastDot(s, i) ==
  IF i = 0 THEN 0 ELSE IF s[i] = "." THEN i ELSE LastDot(s, i - 1)

\* path.extname(p): from the last "." of the last segment, "" when there is
\* none or the segment starts with it.
Extname(p) ==
  LET segs == Segments(p)
      base == IF segs = <<>> THEN <<>> ELSE segs[Len(segs)]
      d == LastDot(base, Len(base))
  IN  IF d <= 1 \/ base = DotDot THEN <<>> ELSE SubSeq(base, d, Len(base))

\* String.prototype.toLowerCase, on the letters the inputs use.
LowerChar(c) ==
  CASE c = "E" -> "e" [] c = "L" -> "l" [] c = "S" -> "s" [] c = "T" -> "t"
    [] c = "X" -> "x" [] c = "W" -> "w" [] c = "C" -> "c"
    [] c = "A" -> "a" [] c = "P" -> "p" [] OTHER -> c

ToLowerCase(s) == [i \in DOMAIN s |-> LowerChar(s[i])]

(***************************************************************************)
(* The sandbox.                                                            *)
(***************************************************************************)
\* process.cwd() and path.resolve('./sandbox')
Cwd == <<"/", "w">>
SandboxPath == Cwd \o <<"/", "s", "b">>

\* this.maxFileSize = 10 * 1024 * 1024
MaxFileSize == 10485760

\* The paths, contents and commands the operations are called with.
PathInputs ==
  { <<"t", "e", "m", "p", "/", "a", ".", "t", "x", "t">>, <<"t", "e", "m", "p", "/", "a", ".", "e", "x", "e">>, <<".", ".", "/", "o", "u", "t", "s", "i", "d", "e", ".", "t", "x", "t">>, <<".", ".", "/", "s", "b", "2", "/", "x", ".", "t", "x", "t">>,
    <<"t", "e", "m", "p", "/", ".", ".", "/", "b", ".", "m", "d">>, <<"/", "a", "b", "s", ".", "t", "x", "t">>, <<>> }

ContentInputs == {5, MaxFileSize, MaxFileSize + 1}

CommandInputs ==
  { <<"l", "s">>, <<"L", "S">>, <<"r", "m", " ", "-", "r", "f", " ", "t", "e", "m", "p">>, <<"e", "c", "h", "o", " ", "h", "i", " ", ">", " ", "a", ".", "e", "x", "e">>, <<"e", "c", "h", "o", " ", "h", "i", " ", ">", " ", "/", "w", "/", "o", "u", "t", ".", "t", "x", "t">>,
    <<"l", "s", " ", ";", " ", "r", "m", " ", "-", "r", "f", " ", "t", "e", "m", "p">> }

WorkingDirInputs == { <<>>, <<"t", "e", "m", "p">>, <<".", ".">>, <<".", ".", "/", "s", "b", "2">> }

\* path.join(this.sandboxPath, filePath), computed once for every input.
FullPathOf ==
  [filePath \in PathInputs \cup WorkingDirInputs |->
     Join(SandboxPath, filePath)]

AllowedExtensions ==
  { <<".", "t", "x", "t">>, <<".", "m", "d">>, <<".", "j", "s", "o", "n">>,
    <<".", "j", "s">>, <<".", "h", "t", "m", "l">>, <<".", "c", "s", "s">>,
    <<".", "p", "y">>, <<".", "j", "a", "v", "a">>, <<".", "c", "p", "p">>,
    <<".", "c">>, <<".", "x", "m", "l">>, <<".", "y", "a", "m", "l">>,
    <<".", "y", "m", "l">>, <<".", "c", "s", "v">>, <<".", "l", "o", "g">>,
    <<".", "s", "h">>, <<".", "b", "a", "t">>, <<".", "p", "s", "1">>,
    <<".", "s", "q", "l">> }

\* isPathSafe(filePath): the resolved path starts with the root's string.
IsPathSafe(filePath) == StartsWith(Resolve(filePath), SandboxPath)

\* isExtensionAllowed(filePath)
IsExtensionAllowed(filePath) ==
  LET ext == ToLowerCase(Extname(filePath))
  IN  ext \in AllowedExtensions \/ ext = <<>>

Dir == [kind |-> "dir", size |-> 0]
File(size) == [kind |-> "file", size |-> size]

Exists(f, p) == p \in DOMAIN f
IsDir(f, p) == Exists(f, p) /\ f[p].kind = "dir"
IsFile(f, p) == Exists(f, p) /\ f[p].kind = "file"

\* fs.ensureDir(d): fails when d or an ancestor is a file.
CanEnsureDir(f, d) == \A a \in SelfAndAncestors(d) : ~IsFile(f, a)
EnsureDir(f, d) ==
  [a \in DOMAIN f \cup SelfAndAncestors(d) |->
     IF a \in DOMAIN f THEN f[a] ELSE Dir]

\* fs.writeFile(p, content): fails on a directory (EISDIR) and when the
\* parent is no directory (ENOENT, ENOTDIR).
CanWriteFile(f, p) == ~IsDir(f, p) /\ IsDir(f, Dirname(p)) /\ Dirname(p) # p
WriteFile(f, p, size) ==
  [a \in DOMAIN f \cup {p} |-> IF a = p THEN File(size) ELSE f[a]]

\* fs.remove(p): p and everything below it.
Remove(f, p) == [a \in {b \in DOMAIN f : ~IsWithin(b, p)} |-> f[a]]

OutsideError == "Path outside sandbox not allowed"

\* The results: { success: true, message, ... } returned by the try, and
\* { success: false, error, message } returned by the catch.  error and
\* message are "" when the result has no such field, and threw says that
\* the operation threw instead of returning.
Ok(f, size) ==
  [fs |-> f, success |-> TRUE, error |-> "", size |-> size,
   message |-> "done", threw |-> FALSE]

\* An operation without its catch: the error is thrown to the caller.
FailUncaught(f, error) ==
  [fs |-> f, success |-> FALSE, error |-> "", size |-> 0, message |-> "",
   threw |-> TRUE]

Fail(f, error) ==
  [fs |-> f, success |-> FALSE, error |-> error, size |-> 0,
   message |-> "failed", threw |-> FALSE]

\* createFile(filePath, content); content is given by its UTF-8 byte length.
CreateFileOutcome(filePath, content) ==
  LET fullPath == FullPathOf[filePath]
  IN  IF ~IsPathSafe(fullPath) THEN Fail(fs, OutsideError)
      ELSE IF ~IsExtensionAllowed(fullPath)
        THEN Fail(fs, "File extension not allowed")
      ELSE IF content > MaxFileSize THEN Fail(fs, "File size exceeds limit")
      ELSE IF ~CanEnsureDir(fs, Dirname(fullPath)) THEN Fail(fs, "EEXIST")
      ELSE IF ~CanWriteFile(EnsureDir(fs, Dirname(fullPath)), fullPath)
        THEN Fail(EnsureDir(fs, Dirname(fullPath)), "EISDIR")
      ELSE Ok(WriteFile(EnsureDir(fs, Dirname(fullPath)), fullPath, content),
              content)

\* readFile(filePath)
ReadFileOutcome(filePath) ==
  LET fullPath == FullPathOf[filePath]
  IN  IF ~IsPathSafe(fullPath) THEN Fail(fs, OutsideError)
      ELSE IF ~Exists(fs, fullPath) THEN Fail(fs, "File does not exist")
      ELSE IF fs[fullPath].size > MaxFileSize
        THEN Fail(fs, "File too large to read")
      ELSE IF IsDir(fs, fullPath) THEN Fail(fs, "EISDIR")
      ELSE Ok(fs, fs[fullPath].size)

\* updateFile(filePath, content): no extension check.
UpdateFileOutcome(filePath, content) ==
  LET fullPath == FullPathOf[filePath]
  IN  IF ~IsPathSafe(fullPath) THEN Fail(fs, OutsideError)
      ELSE IF ~Exists(fs, fullPath) THEN Fail(fs, "File does not exist")
      ELSE IF content > MaxFileSize THEN Fail(fs, "File size exceeds limit")
      ELSE IF ~CanWriteFile(fs, fullPath) THEN Fail(fs, "EISDIR")
      ELSE Ok(WriteFile(fs, fullPath, content), content)

\* deleteFile(filePath)
DeleteFileOutcome(filePath) ==
  LET fullPath == FullPathOf[filePath]
  IN  IF ~IsPathSafe(fullPath) THEN Fail(fs, OutsideError)
      ELSE IF ~Exists(fs, fullPath) THEN Fail(fs, "File does not exist")
      ELSE Ok(Remove(fs, fullPath), 0)

\* listFiles(dirPath)
ListFilesOutcome(dirPath) ==
  LET fullPath == FullPathOf[dirPath]
  IN  IF ~IsPathSafe(fullPath) THEN Fail(fs, OutsideError)
      ELSE IF ~Exists(fs, fullPath) THEN Fail(fs, "Directory does not exist")
      ELSE IF ~IsDir(fs, fullPath) THEN Fail(fs, "ENOTDIR")
      ELSE Ok(fs, 0)

\* createDirectory(dirPath)
CreateDirectoryOutcome(dirPath) ==
  LET fullPath == FullPathOf[dirPath]
  IN  IF ~IsPathSafe(fullPath) THEN Fail(fs, OutsideError)
      ELSE IF ~CanEnsureDir(fs, fullPath) THEN Fail(fs, "EEXIST")
      ELSE Ok(EnsureDir(fs, fullPath), 0)

\* The programs installed on the host, by name.
Programs ==
  { <<"l", "s">>, <<"e", "c", "h", "o">>, <<"c", "a", "t">>, <<"h", "e", "a", "d">>, <<"t", "a", "i", "l">>, <<"f", "i", "n", "d">>, <<"g", "r", "e", "p">>, <<"r", "m">> }

\* const safeCommands = [...]
SafeCommands ==
  { <<"d", "i", "r">>, <<"l", "s">>, <<"e", "c", "h", "o">>, <<"t", "y", "p", "e">>, <<"c", "a", "t">>, <<"h", "e", "a", "d">>, <<"t", "a", "i", "l">>, <<"f", "i", "n", "d">>, <<"g", "r", "e", "p">> }

\* command.trim().split(' ')[0].toLowerCase()
BaseCommand(command) ==
  LET commandParts == SplitFrom(command, " ", 1, <<>>)
  IN  IF commandParts = <<>> THEN <<>> ELSE ToLowerCase(commandParts[1])

\* A path the shell is given, relative to its working directory.
ResolveIn(cwd, path) ==
  IF path # <<>> /\ path[1] = Slash THEN Resolve(path) ELSE Join(cwd, path)

\* The word after ">" in a simple command (<<>>: no redirection).
RedirectTarget(words) ==
  IF \E i \in 1..(Len(words) - 1) : words[i] = <<">">>
    THEN words[(CHOOSE i \in 1..(Len(words) - 1) : words[i] = <<">">>) + 1]
    ELSE <<>>

\* /bin/sh running one simple command in cwd: the program is looked up by
\* its name as written; echo writes 3 bytes to its redirection target, rm
\* removes its last operand, the other programs only read.
RunSimple(words, cwd, f) ==
  LET prog == words[1]
      target == RedirectTarget(words)
      operand == ResolveIn(cwd, words[Len(words)])
  IN  IF prog \notin Programs THEN [fs |-> f, ran |-> {}, status |-> 127]
      ELSE IF target # <<>> /\ ~CanWriteFile(f, ResolveIn(cwd, target))
        THEN [fs |-> f, ran |-> {}, status |-> 1]
      ELSE IF target # <<>>
        THEN [fs |-> WriteFile(f, ResolveIn(cwd, target), 3),
              ran |-> {prog}, status |-> 0]
      ELSE IF prog = <<"r", "m">> /\ Len(words) > 1 /\ Exists(f, operand)
        THEN [fs |-> Remove(f, operand), ran |-> {prog}, status |-> 0]
      ELSE [fs |-> f, ran |-> {prog}, status |-> 0]

\* /bin/sh -c command: the simple commands between ";" run in order; the
\* exit status is the last one's.
RECURSIVE RunList(_, _, _, _)
RunList(cmds, cwd, f, ran) ==
  IF cmds = <<>> THEN [fs |-> f, ran |-> ran, status |-> 0]
  ELSE LET r == RunSimple(Head(cmds), cwd, f)
       IN  IF Len(cmds) = 1
             THEN [fs |-> r.fs, ran |-> ran \cup r.ran, status |-> r.status]
             ELSE RunList(Tail(cmds), cwd, r.fs, ran \cup r.ran)

Shell(command, cwd, f) ==
  RunList(SplitFrom(SplitFrom(command, " ", 1, <<>>), <<";">>, 1, <<>>),
          cwd, f, {})

\* executeCommand(command, workingDir): exec() hands the whole string to the
\* shell; a non-zero exit status or a missing working directory rejects.
ExecuteCommandOutcome(command, workingDir) ==
  LET fullWorkingDir == FullPathOf[workingDir]
      run == Shell(command, fullWorkingDir, fs)
  IN  IF BaseCommand(command) \notin SafeCommands
        THEN [fs |-> fs, success |-> FALSE, ran |-> {},
              error |-> "Command not allowed in sandbox",
              message |-> "failed", threw |-> FALSE]
      ELSE IF ~IsPathSafe(fullWorkingDir)
        THEN [fs |-> fs, success |-> FALSE, ran |-> {},
              error |-> "Working directory outside sandbox not allowed",
              message |-> "failed", threw |-> FALSE]
      ELSE IF ~IsDir(fs, fullWorkingDir)
        THEN [fs |-> fs, success |-> FALSE, ran |-> {}, error |-> "ENOENT",
              message |-> "failed", threw |-> FALSE]
      ELSE [fs |-> run.fs, success |-> (run.status = 0), ran |-> run.ran,
            error |-> IF run.status = 0 THEN "" ELSE "Command failed",
            message |-> IF run.status = 0 THEN "done" ELSE "failed",
            threw |-> FALSE]

NoOp ==
  [op |-> "none", path |-> <<>>, content |-> 0, command |-> <<>>,
   success |-> FALSE, error |-> "", size |-> 0, changed |-> FALSE,
   message |-> "", threw |-> FALSE]

\* A file operation takes effect and its result is returned.
Finish(op, path, content, outcome) ==
  /\ sandboxCalls < MaxOps
  /\ \E out \in {outcome} :
    /\ sandboxCalls' = sandboxCalls + 1
    /\ fs' = out.fs
    /\ sandboxOp' = [op |-> op, path |-> path, content |-> content,
                     command |-> <<>>,
                     success |-> out.success, error |-> out.error,
                     size |-> out.size, changed |-> (out.fs # fs),
                     message |-> out.message, threw |-> out.threw]
    /\ UNCHANGED <<programsRun, gateVars, memoryVars, persistVars, loopVars>>

CreateFile(filePath, content) ==
  Finish("createFile", filePath, content, CreateFileOutcome(filePath, content))

ReadFile(filePath) ==
  Finish("readFile", filePath, 0, ReadFileOutcome(filePath))

UpdateFile(filePath, content) ==
  Finish("updateFile", filePath, content, UpdateFileOutcome(filePath, content))

DeleteFile(filePath) ==
  Finish("deleteFile", filePath, 0, DeleteFileOutcome(filePath))

ListFiles(dirPath) ==
  Finish("listFiles", dirPath, 0, ListFilesOutcome(dirPath))

CreateDirectory(dirPath) ==
  Finish("createDirectory", dirPath, 0, CreateDirectoryOutcome(dirPath))

ExecuteCommand(command, workingDir) ==
  /\ sandboxCalls < MaxOps
  /\ \E out \in {ExecuteCommandOutcome(command, workingDir)} :
      /\ sandboxCalls' = sandboxCalls + 1
      /\ fs' = out.fs
      /\ programsRun' = programsRun \cup out.ran
      /\ sandboxOp' = [op |-> "executeCommand", path |-> workingDir,
                       content |-> 0, command |-> command,
                       success |-> out.success,
                       error |-> out.error, size |-> 0,
                       changed |-> (out.fs # fs),
                       message |-> out.message, threw |-> out.threw]
      /\ UNCHANGED <<gateVars, memoryVars, persistVars, loopVars>>

\* The sizes of the files of a set of paths, added up.
RECURSIVE TotalSize(_, _)
TotalSize(f, paths) ==
  IF paths = {} THEN 0
  ELSE LET p == CHOOSE q \in paths : TRUE
       IN  (IF IsFile(f, p) THEN f[p].size ELSE 0)
             + TotalSize(f, paths \ {p})

\* getWorkspaceInfo(): getDirectoryStats reads the sandbox directory and
\* everything below it; readdir rejects when the directory is not there.
GetWorkspaceInfoOutcome ==
  IF ~Exists(fs, SandboxPath) THEN Fail(fs, "ENOENT")
  ELSE IF ~IsDir(fs, SandboxPath) THEN Fail(fs, "ENOTDIR")
  ELSE Ok(fs, TotalSize(fs, {p \in DOMAIN fs : IsWithin(p, SandboxPath)}))

GetWorkspaceInfo ==
  Finish("getWorkspaceInfo", <<>>, 0, GetWorkspaceInfoOutcome)

\* The filesystem after SandboxSystem.init(): the root and its four
\* subdirectories.
InitialFs ==
  [a \in SelfAndAncestors(SandboxPath)
         \cup { Join(SandboxPath, d) :
                  d \in {<<"p", "r", "o", "j", "e", "c", "t", "s">>, <<"e", "x", "p", "e", "r", "i", "m", "e", "n", "t", "s">>, <<"w", "r", "i", "t", "i", "n", "g", "s">>, <<"t", "e", "m", "p">>} }
     |-> Dir]

SandboxInit ==
  /\ fs = InitialFs
  /\ sandboxOp = NoOp
  /\ programsRun = {}
  /\ sandboxCalls = 0

SandboxNext ==
  \/ \E filePath \in PathInputs, content \in ContentInputs :
       CreateFile(filePath, content)
  \/ \E filePath \in PathInputs : ReadFile(filePath)
  \/ \E filePath \in PathInputs, content \in ContentInputs :
       UpdateFile(filePath, content)
  \/ \E filePath \in PathInputs : DeleteFile(filePath)
  \/ \E dirPath \in PathInputs : ListFiles(dirPath)
  \/ \E dirPath \in PathInputs : CreateDirectory(dirPath)
  \/ \E command \in CommandInputs, workingDir \in WorkingDirInputs :
       ExecuteCommand(command, workingDir)
  \/ GetWorkspaceInfo

(***************************************************************************)
(* The memory store.  A record keeps the fields the store's own code       *)
(* reads (type, outcome) and its id; seq is history: the number of the     *)
(* call that created it (0 and below: loaded from disk).                   *)
(***************************************************************************)
\* if (this.sessionMemory.length > 50) ... slice(-30)
SessionHighWater == 50
SessionLowWater == 30
\* if (this.experiences.length > 200) ... slice(-150)
ExperienceHighWater == 200
ExperienceLowWater == 150
\* if (this.longTermMemory.length > 100) ... slice(-80)
ArchiveHighWater == 100
ArchiveLowWater == 80

\* A slice that keeps the oldest n elements instead.
SliceFirst(a, n) ==
  IF Len(a) <= n THEN a ELSE SubSeq(a, 1, n)

\* Array.prototype.slice(-n): the last n elements, all of them when fewer.
SliceLast(a, n) ==
  IF Len(a) <= n THEN a ELSE SubSeq(a, Len(a) - n + 1, Len(a))

ThoughtTypes == {"thought", "reflection", "achievement"}
Outcomes == {"success", "failure"}

ThoughtRecord(type) ==
  [seq |-> memoryCalls + 1, id |-> now, type |-> type, action |-> "",
   outcome |-> ""]

ActionRecord(action, outcome) ==
  [seq |-> memoryCalls + 1, id |-> now, type |-> "action", action |-> action,
   outcome |-> outcome]

\* An experience log that forgets to trim.
TrimExperiencesNever(log) == log

\* addAction's cap of the experience log.
TrimExperiences(log) ==
  IF Len(log) > ExperienceHighWater THEN SliceLast(log, ExperienceLowWater)
  ELSE log

\* addThought's cap of the session buffer.
TrimSession(buffer) ==
  IF Len(buffer) > SessionHighWater THEN SliceLast(buffer, SessionLowWater)
  ELSE buffer

\* An archive that is never cut.
TrimArchiveNever(archive) == archive

\* consolidateMemories' cap of the archive.
TrimArchive(archive) ==
  IF Len(archive) > ArchiveHighWater THEN SliceLast(archive, ArchiveLowWater)
  ELSE archive

\* A filter that also takes the actions that failed.
IsImportantAnyAction(memory) ==
  memory.type \in {"reflection", "achievement", "action"}

\* consolidateMemories' filter predicate.
IsImportant(memory) ==
  \/ memory.type = "reflection"
  \/ memory.type = "achievement"
  \/ (memory.type = "action" /\ memory.outcome = "success")

\* Array.prototype.filter with that predicate.
ImportantMemories(buffer) == SelectSeq(buffer, IsImportant)

\* History of a call: the operation and the one before it, the lengths it
\* found, the number of consolidateMemories calls so far and the count it
\* returned (0 for the operations that return a record).
OpRecord(op, returned) ==
  [op |-> op, prevOp |-> memoryOp.op, sessionBefore |-> Len(sessionMemory),
   experiencesBefore |-> Len(experiences),
   archiveBefore |-> Len(longTermMemory),
   consolidations |-> memoryOp.consolidations + (IF op = "consolidate" THEN 1 ELSE 0),
   returned |-> returned]

\* addThought(thought, type): what the call does to the store.
addThought(type) ==
  /\ sessionMemory' = TrimSession(Append(sessionMemory, ThoughtRecord(type)))
  /\ memoryOp' = OpRecord("addThought", 0)
  /\ memoryCalls' = memoryCalls + 1

\* A call of addThought on its own.
AddThought(type) ==
  /\ memoryCalls < MaxMemoryCalls
  /\ Len(sessionMemory) >= WarmUp \/ type = "thought"
  /\ addThought(type)
  /\ UNCHANGED <<longTermMemory, experiences, projects, projectOp, gateVars,
                 sandboxVars, persistVars, loopVars>>

\* An addAction that leaves the session buffer alone.
addActionLogOnly(action, outcome) ==
  /\ sessionMemory' = sessionMemory
  /\ experiences' =
       TrimExperiences(Append(experiences, ActionRecord(action, outcome)))
  /\ memoryOp' = OpRecord("addAction", 0)
  /\ memoryCalls' = memoryCalls + 1

\* addAction(action, outcome, details): the session buffer is not capped
\* here.
addAction(action, outcome) ==
  /\ sessionMemory' = Append(sessionMemory, ActionRecord(action, outcome))
  /\ experiences' =
       TrimExperiences(Append(experiences, ActionRecord(action, outcome)))
  /\ memoryOp' = OpRecord("addAction", 0)
  /\ memoryCalls' = memoryCalls + 1

\* A call of addAction on its own.
AddAction(action, outcome) ==
  /\ memoryCalls < MaxMemoryCalls
  /\ Len(sessionMemory) >= WarmUp
  /\ addAction(action, outcome)
  /\ UNCHANGED <<longTermMemory, projects, projectOp, gateVars, sandboxVars, persistVars, loopVars>>

\* consolidateMemories(): the session records that pass the filter are
\* pushed onto the archive and stay in the session buffer.
consolidateMemories ==
  /\ longTermMemory' =
       TrimArchive(longTermMemory \o ImportantMemories(sessionMemory))
  /\ memoryOp' = OpRecord("consolidate", Len(ImportantMemories(sessionMemory)))

\* A consolidation that takes the records it promotes out of the session
\* buffer.
ConsolidateMemoriesMoves ==
  /\ memoryCalls >= WarmUp
  /\ memoryOp.consolidations < MaxConsolidations
  /\ consolidateMemories
  /\ sessionMemory' = SelectSeq(sessionMemory, LAMBDA m : ~IsImportant(m))
  /\ UNCHANGED <<experiences, projects, memoryCalls, projectOp,
                 gateVars, sandboxVars, persistVars, loopVars>>

\* A call of consolidateMemories on its own.
ConsolidateMemories ==
  /\ memoryCalls >= WarmUp
  /\ memoryOp.consolidations < MaxConsolidations
  /\ consolidateMemories
  /\ UNCHANGED <<sessionMemory, experiences, projects, memoryCalls, projectOp,
                 gateVars, sandboxVars, persistVars, loopVars>>

(***************************************************************************)
(* The project registry.  A project keeps id, name, status, created and    *)
(* lastWorked; created and lastWorked are instants of the clock (the code  *)
(* keeps them as ISO strings, which new Date() reads back to the instant). *)
(***************************************************************************)
ProjectNames == {"alpha"}
ProjectStatuses == {"active", "completed"}

\* A field update: a function from some of a project's field names to
\* their new values.
NoFields == [f \in {} |-> 0]
UpdateInputs ==
  { NoFields,
    [f \in {"status"} |-> "archived"],
    [f \in {"lastWorked"} |-> 1],
    [f \in {"name", "status"} |-> IF f = "name" THEN "beta" ELSE "active"] }

\* The ids updateProject is called with: those of the registry and one
\* that no project has.
UnknownId == 0
ProjectIdInputs == {projects[i].id : i \in DOMAIN projects} \cup {UnknownId}

\* History of a call: the operation, its arguments, the clock and the
\* registry it found, whether it returned a project (found) or null, the
\* count it returned, and the number of calls so far.
NoProjectOp ==
  [op |-> "none", id |-> UnknownId, updates |-> NoFields, at |-> 0,
   before |-> <<>>, found |-> FALSE, returned |-> 0, calls |-> 0]

ProjectOpRecord(op, id, updates, found, returned) ==
  [op |-> op, id |-> id, updates |-> updates, at |-> now, before |-> projects,
   found |-> found, returned |-> returned, calls |-> projectOp.calls + 1]

\* addProject(name, description, status)
AddProject(name, status) ==
  /\ projectOp.calls < MaxProjectCalls
  /\ Len(projects) < MaxProjects
  /\ projects' = Append(projects,
                        [id |-> now, name |-> name, status |-> status,
                         created |-> now, lastWorked |-> now])
  /\ projectOp' = ProjectOpRecord("addProject", now, NoFields, TRUE, 0)
  /\ UNCHANGED <<sessionMemory, longTermMemory, experiences, memoryOp,
                 memoryCalls, gateVars, sandboxVars, persistVars, loopVars>>

\* A spread that lets the project's own fields win.
SpreadKeepingOld(project, updates) ==
  [f \in DOMAIN project \cup DOMAIN updates |->
     IF f \in DOMAIN project THEN project[f] ELSE updates[f]]

\* { ...project, ...updates }
Spread(project, updates) ==
  [f \in DOMAIN project \cup DOMAIN updates |->
     IF f \in DOMAIN updates THEN updates[f] ELSE project[f]]

\* this.projects.findIndex(p => p.id === projectId); 0 stands for -1.
FindIndex(projectId) ==
  IF \E i \in DOMAIN projects : projects[i].id = projectId
  THEN CHOOSE i \in DOMAIN projects :
         /\ projects[i].id = projectId
         /\ \A j \in 1..(i - 1) : projects[j].id # projectId
  ELSE 0

\* updateProject(projectId, updates)
UpdateProject(projectId, updates) ==
  /\ projectOp.calls < MaxProjectCalls
  /\ LET projectIndex == FindIndex(projectId) IN
       IF projectIndex # 0
       THEN /\ projects' =
                 [projects EXCEPT
                    ![projectIndex] =
                      [Spread(projects[projectIndex], updates)
                         EXCEPT !.lastWorked = now]]
            /\ projectOp' =
                 ProjectOpRecord("updateProject", projectId, updates, TRUE, 0)
       ELSE /\ projects' = projects
            /\ projectOp' =
                 ProjectOpRecord("updateProject", projectId, updates, FALSE, 0)
  /\ UNCHANGED <<sessionMemory, longTermMemory, experiences, memoryOp,
                 memoryCalls, gateVars, sandboxVars, persistVars, loopVars>>

\* A sort that leaves the registry's order.
Unsorted(list) == list

\* Array.prototype.sort with (a, b) => new Date(b.created) - new
\* Date(a.created): a stable sort, the latest created first.
RECURSIVE InsertByCreated(_, _)
InsertByCreated(sorted, p) ==
  IF sorted = <<>> THEN <<p>>
  ELSE IF sorted[Len(sorted)].created >= p.created THEN Append(sorted, p)
  ELSE Append(InsertByCreated(SubSeq(sorted, 1, Len(sorted) - 1), p),
              sorted[Len(sorted)])

RECURSIVE SortFrom(_, _, _)
SortFrom(list, i, sorted) ==
  IF i > Len(list) THEN sorted
  ELSE SortFrom(list, i + 1, InsertByCreated(sorted, list[i]))

SortByCreatedDescending(list) == SortFrom(list, 1, <<>>)

\* The number of active projects among the first i of list.
RECURSIVE ActiveUpTo(_, _)
ActiveUpTo(list, i) ==
  IF i = 0 THEN 0
  ELSE ActiveUpTo(list, i - 1) + (IF list[i].status = "active" THEN 1 ELSE 0)

\* "Keep only the 2 most recent active projects"
KeptActive == 2

\* cleanupProjects(): the registry is sorted in place, and the active
\* projects after the first two of the sorted order become completed.
CleanupProjects ==
  /\ projectOp.calls < MaxProjectCalls
  /\ \E sorted \in {SortByCreatedDescending(projects)} :
       /\ projects' =
            [i \in DOMAIN sorted |->
               IF sorted[i].status = "active" /\ ActiveUpTo(sorted, i) > KeptActive
               THEN [sorted[i] EXCEPT !.status = "completed"]
               ELSE sorted[i]]
       /\ projectOp' =
            ProjectOpRecord("cleanupProjects", UnknownId, NoFields, FALSE,
                            IF ActiveUpTo(sorted, Len(sorted)) > KeptActive
                            THEN ActiveUpTo(sorted, Len(sorted)) - KeptActive
                            ELSE 0)
  /\ UNCHANGED <<sessionMemory, longTermMemory, experiences, memoryOp,
                 memoryCalls, gateVars, sandboxVars, persistVars, loopVars>>

(***************************************************************************)
(* Persistence.  A resource is a JSON document or does not exist.  The     *)
(* document of an array of records is the list of their objects; an object *)
(* is the set of its members <<key, value>>, which is what the JSON text   *)
(* of a record of strings and numbers holds.                               *)
(***************************************************************************)
\* JSON.stringify of a record, and JSON.parse of the object.
Members(record) == {<<k, record[k]>> : k \in DOMAIN record}

ParseObject(members) ==
  [k \in {m[1] : m \in members} |-> (CHOOSE m \in members : m[1] = k)[2]]

\* A writer that writes an empty array.
WriteJsonEmpty(list) == [exists |-> TRUE, json |-> <<>>]

\* fs.writeJson(file, list): the resource exists and holds the document.
WriteJson(list) ==
  [exists |-> TRUE, json |-> [i \in DOMAIN list |-> Members(list[i])]]

\* fs.readJson(file)
ReadJson(resource) ==
  [i \in DOMAIN resource.json |-> ParseObject(resource.json[i])]

NoResource == [exists |-> FALSE, json |-> <<>>]

\* History of the persistence calls: the last one and the one before it,
\* the number of resources the last saveMemories wrote before an error (3:
\* all of them), the store that call found, the session buffer the last
\* call found, the number of calls, the number of resources the last
\* loadMemories went through before an error (3: all of them), and whether
\* the last call threw to its caller.
NoPersistOp ==
  [op |-> "none", prevOp |-> "none", written |-> 0, savedLongTerm |-> <<>>,
   savedExperiences |-> <<>>, savedProjects |-> <<>>, sessionBefore |-> <<>>,
   calls |-> 0, read |-> 0, threw |-> FALSE]

\* A saveMemories() without its catch: the error of a write is thrown.
saveMemoriesUncaught(written) ==
  /\ disk' =
       [longTerm |-> IF written >= 1 THEN WriteJson(longTermMemory)
                     ELSE disk.longTerm,
        experiences |-> IF written >= 2 THEN WriteJson(experiences)
                        ELSE disk.experiences,
        projects |-> IF written >= 3 THEN WriteJson(projects)
                     ELSE disk.projects]
  /\ persistOp' =
       [op |-> "save", prevOp |-> persistOp.op, written |-> written,
        savedLongTerm |-> longTermMemory, savedExperiences |-> experiences,
        savedProjects |-> projects, sessionBefore |-> sessionMemory,
        calls |-> persistOp.calls + 1, read |-> persistOp.read,
        threw |-> (written < 3)]

\* saveMemories(): three writes in sequence; an error of one of them is
\* caught and logged, and the writes after it are not made. written is the
\* number of writes made.
saveMemories(written) ==
  /\ disk' =
       [longTerm |-> IF written >= 1 THEN WriteJson(longTermMemory)
                     ELSE disk.longTerm,
        experiences |-> IF written >= 2 THEN WriteJson(experiences)
                        ELSE disk.experiences,
        projects |-> IF written >= 3 THEN WriteJson(projects)
                     ELSE disk.projects]
  /\ persistOp' =
       [op |-> "save", prevOp |-> persistOp.op, written |-> written,
        savedLongTerm |-> longTermMemory, savedExperiences |-> experiences,
        savedProjects |-> projects, sessionBefore |-> sessionMemory,
        calls |-> persistOp.calls + 1, read |-> persistOp.read,
        threw |-> FALSE]

\* The calls made to the store so far.
StoreCalls ==
  persistOp.calls + memoryCalls + memoryOp.consolidations + projectOp.calls

\* A call of saveMemories on its own.
SaveMemories(written) ==
  /\ StoreCalls < MaxPersistSteps
  /\ saveMemories(written)
  /\ UNCHANGED <<memoryVars, gateVars, sandboxVars, loopVars>>

\* loadMemories(), all reads succeeding: each resource that exists replaces
\* its store.
loadMemories ==
  /\ longTermMemory' =
       IF disk.longTerm.exists THEN ReadJson(disk.longTerm) ELSE longTermMemory
  /\ experiences' =
       IF disk.experiences.exists THEN ReadJson(disk.experiences)
       ELSE experiences
  /\ projects' =
       IF disk.projects.exists THEN ReadJson(disk.projects) ELSE projects
  /\ persistOp' =
       [persistOp EXCEPT !.op = "load", !.prevOp = persistOp.op,
                         !.sessionBefore = sessionMemory,
                         !.calls = persistOp.calls + 1,
                         !.read = 3, !.threw = FALSE]

\* A call of loadMemories on its own.
LoadMemories ==
  /\ StoreCalls < MaxPersistSteps
  /\ loadMemories
  /\ UNCHANGED <<sessionMemory, memoryOp, memoryCalls, projectOp, disk,
                 gateVars, sandboxVars, loopVars>>

\* The k-th resource: long-term.json, experiences.json, projects.json.
Resource(k) ==
  IF k = 1 THEN disk.longTerm
  ELSE IF k = 2 THEN disk.experiences
  ELSE disk.projects

\* loadMemories() when fs.readJson rejects on the resource after the first
\* read ones (it cannot be read, or is no JSON): the resources before it
\* have replaced their stores, the catch logs the error and the stores
\* after it are left as they are.
loadMemoriesFailing(read) ==
  /\ longTermMemory' =
       IF read >= 1 /\ disk.longTerm.exists THEN ReadJson(disk.longTerm)
       ELSE longTermMemory
  /\ experiences' =
       IF read >= 2 /\ disk.experiences.exists
       THEN ReadJson(disk.experiences)
       ELSE experiences
  /\ projects' = projects
  /\ persistOp' =
       [persistOp EXCEPT !.op = "load", !.prevOp = persistOp.op,
                         !.sessionBefore = sessionMemory,
                         !.calls = persistOp.calls + 1,
                         !.read = read, !.threw = FALSE]

\* A call of loadMemories whose read of the resource after the first read
\* ones fails.
LoadMemoriesFails(read) ==
  /\ StoreCalls < MaxPersistSteps
  /\ Resource(read + 1).exists
  /\ loadMemoriesFailing(read)
  /\ UNCHANGED <<sessionMemory, memoryOp, memoryCalls, projectOp, disk,
                 gateVars, sandboxVars, loopVars>>

\* An experience log as loadMemories() reads it from experiences.json: n
\* action records of earlier runs.
LoadedExperiences(n) ==
  [i \in 1..n |->
     [seq |-> i - n, id |-> 0, type |-> "action", action |-> "write_poem",
      outcome |-> IF i % 2 = 0 THEN "success" ELSE "failure"]]

\* An archive as loadMemories() reads it from long-term.json: n records
\* that earlier runs consolidated.
LoadedArchive(n) ==
  [i \in 1..n |->
     IF i % 2 = 0
     THEN [seq |-> i - n, id |-> 0, type |-> "reflection", action |-> "",
           outcome |-> ""]
     ELSE [seq |-> i - n, id |-> 0, type |-> "action", action |-> "write_poem",
           outcome |-> "success"]]

\* The resources under memoryPath when the process starts: none, as on a
\* first run, or those an earlier run saved.
DiskInputs ==
  {[longTerm |-> NoResource, experiences |-> NoResource,
    projects |-> NoResource]}
  \cup {[longTerm |-> WriteJson(LoadedArchive(n)),
          experiences |-> WriteJson(LoadedExperiences(n)),
          projects |-> WriteJson(<<>>)] : n \in 1..MaxLoaded}

\* The resource a store was loaded from: none when the store is empty.
ResourceOf(list) == IF list = <<>> THEN NoResource ELSE WriteJson(list)

\* new MemorySystem(), once init() has loaded the three resources.
MemoryInit ==
  /\ sessionMemory = <<>>
  /\ longTermMemory \in
       {LoadedArchive(n) : n \in {0, ArchiveHighWater - 1, ArchiveHighWater}}
  /\ experiences \in
       {LoadedExperiences(n) :
          n \in {0} \cup ((ExperienceHighWater - MaxHeadroom)..ExperienceHighWater)}
  /\ projects = <<>>
  /\ memoryOp = [op |-> "none", prevOp |-> "none", sessionBefore |-> 0,
                 experiencesBefore |-> 0,
                 archiveBefore |-> 0, consolidations |-> 0, returned |-> 0]
  /\ memoryCalls = 0
  /\ projectOp = NoProjectOp
  /\ disk = [longTerm |-> ResourceOf(longTermMemory),
             experiences |-> ResourceOf(experiences),
             projects |-> ResourceOf(projects)]
  /\ persistOp = NoPersistOp

\* A store whose resources do not exist yet.
MemoryEmpty == MemoryInit /\ experiences = <<>> /\ longTermMemory = <<>>

MemoryNext ==
  \/ \E type \in ThoughtTypes : AddThought(type)
  \/ \E outcome \in Outcomes : AddAction("write_poem", outcome)
  \/ ConsolidateMemories

\* The registry's operations, and the clock that passes between them.
ProjectsNext ==
  \/ \E name \in ProjectNames, status \in ProjectStatuses :
       AddProject(name, status)
  \/ \E projectId \in ProjectIdInputs, updates \in UpdateInputs :
       UpdateProject(projectId, updates)
  \/ CleanupProjects
  \/ (now < StartTime + MaxProjectElapsed /\ Tick)

\* new MemorySystem(), once init() has loaded what an earlier run saved.
MemoryLoaded ==
  /\ disk \in DiskInputs
  /\ sessionMemory = <<>>
  /\ longTermMemory =
       IF disk.longTerm.exists THEN ReadJson(disk.longTerm) ELSE <<>>
  /\ experiences =
       IF disk.experiences.exists THEN ReadJson(disk.experiences) ELSE <<>>
  /\ projects = IF disk.projects.exists THEN ReadJson(disk.projects) ELSE <<>>
  /\ memoryOp = [op |-> "none", prevOp |-> "none", sessionBefore |-> 0,
                 experiencesBefore |-> 0,
                 archiveBefore |-> 0, consolidations |-> 0, returned |-> 0]
  /\ memoryCalls = 0
  /\ projectOp = NoProjectOp
  /\ persistOp = NoPersistOp

\* new MemorySystem(), before init() has loaded the resources.
MemoryConstructed ==
  /\ disk \in DiskInputs
  /\ sessionMemory = <<>>
  /\ longTermMemory = <<>>
  /\ experiences = <<>>
  /\ projects = <<>>
  /\ memoryOp = [op |-> "none", prevOp |-> "none", sessionBefore |-> 0,
                 experiencesBefore |-> 0,
                 archiveBefore |-> 0, consolidations |-> 0, returned |-> 0]
  /\ memoryCalls = 0
  /\ projectOp = NoProjectOp
  /\ persistOp = NoPersistOp

\* saveMemories and loadMemories, and between them a few calls that change
\* the store.
PersistNext ==
  \/ \E written \in 0..3 : SaveMemories(written)
  \/ LoadMemories
  \/ \E read \in 0..2 : LoadMemoriesFails(read)
  \/ /\ StoreCalls < MaxPersistSteps
     /\ addThought("thought")
     /\ UNCHANGED <<longTermMemory, experiences, projects, projectOp,
                    gateVars, sandboxVars, persistVars, loopVars>>
  \/ /\ StoreCalls < MaxPersistSteps
     /\ \E outcome \in Outcomes : addAction("write_poem", outcome)
     /\ UNCHANGED <<longTermMemory, projects, projectOp, gateVars,
                    sandboxVars, persistVars, loopVars>>
  \/ /\ StoreCalls < MaxPersistSteps
     /\ consolidateMemories
     /\ UNCHANGED <<sessionMemory, experiences, projects, memoryCalls,
                    projectOp, gateVars, sandboxVars, persistVars, loopVars>>
  \/ /\ StoreCalls < MaxPersistSteps
     /\ \E name \in ProjectNames, status \in ProjectStatuses :
          AddProject(name, status)

\* The calls that create records and projects, the consolidation that
\* copies records to the archive, and the clock, which may or may not
\* advance between two calls.
IdsNext ==
  \/ /\ StoreCalls < MaxPersistSteps
     /\ \E type \in ThoughtTypes : addThought(type)
     /\ UNCHANGED <<longTermMemory, experiences, projects, projectOp,
                    gateVars, sandboxVars, persistVars, loopVars>>
  \/ /\ StoreCalls < MaxPersistSteps
     /\ \E outcome \in Outcomes : addAction("write_poem", outcome)
     /\ UNCHANGED <<longTermMemory, projects, projectOp, gateVars,
                    sandboxVars, persistVars, loopVars>>
  \/ /\ StoreCalls < MaxPersistSteps
     /\ consolidateMemories
     /\ UNCHANGED <<sessionMemory, experiences, projects, memoryCalls,
                    projectOp, gateVars, sandboxVars, persistVars, loopVars>>
  \/ /\ StoreCalls < MaxPersistSteps
     /\ \E name \in ProjectNames, status \in ProjectStatuses :
          AddProject(name, status)
  \/ (now < StartTime + MaxProjectElapsed /\ Tick)

(***************************************************************************)
(* The context the oracle is given.                                        *)
(***************************************************************************)
\* getRecentMemories(count).filter(m => m.type === 'thought'): the slice is
\* taken first.
SliceThenFilter(buffer, count) ==
  SelectSeq(SliceLast(buffer, count), LAMBDA m : m.type = "thought")

\* getActiveProjects()
GetActiveProjects == SelectSeq(projects, LAMBDA p : p.status = "active")

\* The value getContextForAI() returns.
ContextForAI ==
  [recentThoughts |-> SliceThenFilter(sessionMemory, 5),
   activeProjects |-> GetActiveProjects,
   recentActions |-> SliceLast(experiences, 3),
   sessionLength |-> Len(sessionMemory)]

NoContext ==
  [recentThoughts |-> <<>>, activeProjects |-> <<>>, recentActions |-> <<>>,
   sessionLength |-> 0, calls |-> 0, readAt |-> 0]

\* getContextForAI(); calls and readAt are history: the number of calls so
\* far, and the number of addThought/addAction calls made before this one.
getContextForAI ==
  context' = [recentThoughts |-> ContextForAI.recentThoughts,
              activeProjects |-> ContextForAI.activeProjects,
              recentActions |-> ContextForAI.recentActions,
              sessionLength |-> ContextForAI.sessionLength,
              calls |-> context.calls + 1,
              readAt |-> memoryCalls]

\* A call of getContextForAI on its own.
GetContextForAI ==
  /\ memoryCalls + context.calls < MaxContextCalls
  /\ getContextForAI
  /\ UNCHANGED <<memoryVars, persistVars, gateVars, sandboxVars, cyclePc,
                 isRunning, maxActionsPerCycle, actionsThisCycle, actionPlan,
                 actionOutcome, cycles, cycleLog, shutdownVars,
                 oracleVars>>

\* The store is written, then read.
ContextNext ==
  \/ /\ memoryCalls + context.calls < MaxContextCalls
     /\ \E type \in {"thought", "reflection"} : addThought(type)
     /\ UNCHANGED <<longTermMemory, experiences, projects, projectOp,
                    gateVars, sandboxVars, persistVars, loopVars>>
  \/ /\ memoryCalls + context.calls < MaxContextCalls
     /\ \E result \in Outcomes : addAction("write_poem", result)
     /\ UNCHANGED <<longTermMemory, projects, projectOp, gateVars,
                    sandboxVars, persistVars, loopVars>>
  \/ GetContextForAI

(***************************************************************************)
(* The oracle's thought and its kind: classifyThought of main.js.  A text  *)
(* is the sequence of its characters.                                      *)
(***************************************************************************)
\* String.prototype.includes
Includes(s, sub) ==
  \E i \in 1..(Len(s) - Len(sub) + 1) : SubSeq(s, i, i + Len(sub) - 1) = sub

\* Some keyword of the group is part of the text.
IncludesAny(s, keywords) == \E k \in keywords : Includes(s, k)

\* 'reflect', 'learned', 'experience'
ReflectionKeywords ==
  {<<"r", "e", "f", "l", "e", "c", "t">>,
   <<"l", "e", "a", "r", "n", "e", "d">>,
   <<"e", "x", "p", "e", "r", "i", "e", "n", "c", "e">>}

\* 'decide', 'will', 'going to'
DecisionKeywords ==
  {<<"d", "e", "c", "i", "d", "e">>,
   <<"w", "i", "l", "l">>,
   <<"g", "o", "i", "n", "g", " ", "t", "o">>}

\* 'curious', 'wonder', 'explore'
CuriosityKeywords ==
  {<<"c", "u", "r", "i", "o", "u", "s">>,
   <<"w", "o", "n", "d", "e", "r">>,
   <<"e", "x", "p", "l", "o", "r", "e">>}

\* 'completed', 'finished', 'success'
AchievementKeywords ==
  {<<"c", "o", "m", "p", "l", "e", "t", "e", "d">>,
   <<"f", "i", "n", "i", "s", "h", "e", "d">>,
   <<"s", "u", "c", "c", "e", "s", "s">>}

\* A classifyThought that looks for the achievement keywords first.
classifyThoughtAchievementFirst(text) ==
  LET lowerThought == ToLowerCase(text)
  IN  IF IncludesAny(lowerThought, AchievementKeywords) THEN "achievement"
      ELSE IF IncludesAny(lowerThought, ReflectionKeywords) THEN "reflection"
      ELSE IF IncludesAny(lowerThought, DecisionKeywords) THEN "decision"
      ELSE IF IncludesAny(lowerThought, CuriosityKeywords) THEN "curiosity"
      ELSE "thought"

\* classifyThought(thought)
classifyThought(text) ==
  LET lowerThought == ToLowerCase(text)
  IN  IF IncludesAny(lowerThought, ReflectionKeywords) THEN "reflection"
      ELSE IF IncludesAny(lowerThought, DecisionKeywords) THEN "decision"
      ELSE IF IncludesAny(lowerThought, CuriosityKeywords) THEN "curiosity"
      ELSE IF IncludesAny(lowerThought, AchievementKeywords) THEN "achievement"
      ELSE "thought"

\* The words the oracle's thoughts are made of: the keywords, two of them
\* capitalised, a word that has a keyword inside it, and two that have none.
Words ==
  ReflectionKeywords \cup DecisionKeywords \cup CuriosityKeywords
    \cup AchievementKeywords
    \cup {<<"W", "o", "n", "d", "e", "r">>, <<"C", "o", "m", "p", "l", "e", "t", "e", "d">>, <<"g", "o", "o", "d", "w", "i", "l", "l">>, <<"h", "e", "l", "l", "o">>, <<"t", "a", "s", "k">>}

\* The words of a list, a space between them.
RECURSIVE JoinWords(_)
JoinWords(words) ==
  IF words = <<>> THEN <<>>
  ELSE IF Len(words) = 1 THEN words[1]
  ELSE words[1] \o <<" ">> \o JoinWords(Tail(words))

\* The thoughts: up to MaxWords words.
Thoughts ==
  {JoinWords(words) :
     words \in UNION {[1..n -> Words] : n \in 0..MaxWords}}

\* ai.think returns a thought.
Think(text) ==
  /\ thoughtType # "none" \/ thought = <<>>
  /\ thought' = text
  /\ thoughtType' = "none"
  /\ UNCHANGED <<response, directive, gateVars, sandboxVars, memoryVars,
                 persistVars, context, cyclePc, isRunning, maxActionsPerCycle,
                 actionsThisCycle, actionPlan, actionOutcome, cycles,
                 cycleLog, shutdownVars,
                 callVars>>

\* const thoughtType = this.classifyThought(thought)
ClassifyThought ==
  /\ thoughtType = "none"
  /\ thoughtType' = classifyThought(thought)
  /\ UNCHANGED <<thought, response, directive, gateVars, sandboxVars,
                 memoryVars, persistVars, context, cyclePc, isRunning,
                 maxActionsPerCycle, actionsThisCycle, actionPlan,
                 actionOutcome, cycles, cycleLog, shutdownVars,
                 callVars>>

ClassifyNext ==
  \/ \E text \in Thoughts : Think(text)
  \/ ClassifyThought

(***************************************************************************)
(* The oracle's directive: planAction and parseActionResponse of the AI    *)
(* engine.  The completion is the sequence of its lines (split on the      *)
(* newline), a line the sequence of its characters.                        *)
(***************************************************************************)
ActionPrefix == <<"A", "C", "T", "I", "O", "N", ":">>
ReasonPrefix == <<"R", "E", "A", "S", "O", "N", ":">>
DetailsPrefix == <<"D", "E", "T", "A", "I", "L", "S", ":">>

\* String.prototype.trim, on texts whose only white space is the space.
RECURSIVE TrimStart(_)
TrimStart(s) ==
  IF s # <<>> /\ Head(s) = " " THEN TrimStart(Tail(s)) ELSE s

RECURSIVE TrimEnd(_)
TrimEnd(s) ==
  IF s # <<>> /\ s[Len(s)] = " " THEN TrimEnd(SubSeq(s, 1, Len(s) - 1))
  ELSE s

Trim(s) == TrimEnd(TrimStart(s))

\* line.replace(prefix, '').trim(), for a line that starts with the prefix.
FieldOf(line, prefix) == Trim(SubSeq(line, Len(prefix) + 1, Len(line)))

\* let action = 'wait', reason = 'No reason provided', details = ''
DefaultDirective ==
  [action |-> <<"w", "a", "i", "t">>,
   reason |-> <<"N", "o", " ", "r", "e", "a", "s", "o", "n", " ", "p", "r", "o", "v", "i", "d", "e", "d">>,
   details |-> <<>>, source |-> "parsed"]

\* The for loop of parseActionResponse from line i on: every line that
\* starts with a prefix assigns its field.
RECURSIVE ParseFrom(_, _, _)
ParseFrom(lines, i, d) ==
  IF i > Len(lines) THEN d
  ELSE IF StartsWith(lines[i], ActionPrefix)
    THEN ParseFrom(lines, i + 1,
                   [d EXCEPT !.action = FieldOf(lines[i], ActionPrefix)])
  ELSE IF StartsWith(lines[i], ReasonPrefix)
    THEN ParseFrom(lines, i + 1,
                   [d EXCEPT !.reason = FieldOf(lines[i], ReasonPrefix)])
  ELSE IF StartsWith(lines[i], DetailsPrefix)
    THEN ParseFrom(lines, i + 1,
                   [d EXCEPT !.details = FieldOf(lines[i], DetailsPrefix)])
  ELSE ParseFrom(lines, i + 1, d)

\* parseActionResponse(response)
parseActionResponse(lines) == ParseFrom(lines, 1, DefaultDirective)

\* The directive of planAction's catch.
FailedDirective ==
  [action |-> <<"w", "a", "i", "t">>,
   reason |-> <<"E", "r", "r", "o", "r", " ", "i", "n", " ", "p", "l", "a", "n", "n", "i", "n", "g">>,
   details |-> <<>>, source |-> "failed"]

\* The lines of the completions: lines with each prefix, one in lower case,
\* one with a space before the prefix, and one with no prefix.
Lines ==
  {<<"A", "C", "T", "I", "O", "N", ":", " ", "w", "r", "i", "t", "e", "_", "p", "o", "e", "m">>,
   <<"A", "C", "T", "I", "O", "N", ":", "t", "e", "l", "l", "_", "s", "t", "o", "r", "y", " ">>,
   <<"a", "c", "t", "i", "o", "n", ":", "m", "a", "k", "e", "_", "j", "o", "k", "e">>,
   <<" ", "A", "C", "T", "I", "O", "N", ":", "d", "a", "n", "c", "e">>,
   <<"R", "E", "A", "S", "O", "N", ":", "m", "o", "o", "d">>,
   <<"R", "E", "A", "S", "O", "N", ":", " ", "b", "o", "r", "e", "d">>,
   <<"D", "E", "T", "A", "I", "L", "S", ":", "a", " ", "b">>,
   <<"D", "E", "T", "A", "I", "L", "S", ":", "c">>,
   <<"h", "e", "l", "l", "o">>}

\* The completions: up to MaxLines lines.
Responses == UNION {[1..n -> Lines] : n \in 0..MaxLines}

\* planAction(): the completion arrives and is parsed.
PlanAction(lines) ==
  /\ response' = lines
  /\ directive' = parseActionResponse(lines)
  /\ UNCHANGED <<thought, thoughtType, gateVars, sandboxVars, memoryVars,
                 persistVars, context, cyclePc, isRunning, maxActionsPerCycle,
                 actionsThisCycle, actionPlan, actionOutcome, cycles,
                 cycleLog, shutdownVars,
                 callVars>>

\* planAction(): the call of the oracle throws, and the catch returns.
PlanActionFails ==
  /\ response' = <<>>
  /\ directive' = FailedDirective
  /\ UNCHANGED <<thought, thoughtType, gateVars, sandboxVars, memoryVars,
                 persistVars, context, cyclePc, isRunning, maxActionsPerCycle,
                 actionsThisCycle, actionPlan, actionOutcome, cycles,
                 cycleLog, shutdownVars,
                 callVars>>

DirectiveNext ==
  \/ \E lines \in Responses : PlanAction(lines)
  \/ PlanActionFails

(***************************************************************************)
(* The loop: autonomousLoop, thinkAndAct and executeAction of main.js.     *)
(* cyclePc names the await the cycle is suspended at:                      *)
(*   "context"      thinkAndAct is entered (lines 94-95)                   *)
(*   "think"        await this.ai.think (line 100)                         *)
(*   "test"         the while test (line 119)                              *)
(*   "plan"         await this.ai.planAction (line 120)                    *)
(*   "execute"      await this.executeAction (line 128)                    *)
(*   "delay"        await of the delay between actions (line 134)          *)
(*   "consolidate"  the draw of Math.random (line 138)                     *)
(*   "save"         await this.memory.saveMemories (line 146)              *)
(*   "sleep"        await this.sleep (lines 84 and 87)                     *)
(* "context", "test" and "consolidate" are reached and left within one     *)
(* turn of the event loop; at the others the cycle is suspended.           *)
(***************************************************************************)
\* The cases of executeAction's switch that call a handler.
HandledActions ==
  {"write_poem", "create_ascii_art", "share_thoughts", "tell_story",
   "make_joke", "philosophical_musing", "creative_expression"}

\* The actions the oracle's directive names: one that is handled, wait, and
\* one the dispatcher does not know.
Directives == {"write_poem", "wait", "dance"}

\* The kinds classifyThought gives the oracle's thoughts.
ClassifiedTypes == {"thought", "reflection"}

\* parseInt(process.env.MAX_ACTIONS_PER_CYCLE) || 1: any integer but 0.
MaxActionsInputs == {-1} \cup 1..MaxActions

NoOutcome == [success |-> FALSE, message |-> "none", threw |-> FALSE]

\* History of a cycle: the executeAction calls made, whether the oracle
\* said wait and the session buffer it then found, the unknown action
\* executeAction was last given (none: ""), and whether the cycle ended in
\* autonomousLoop's catch.
NewCycle ==
  [dispatched |-> 0, waited |-> FALSE, sessionAtWait |-> <<>>,
   unknown |-> "", caught |-> FALSE]

\* History of the first shutdown request: where the cycle stood, the number
\* of cycles started and of records added, and the three stores.
NoRequest ==
  [made |-> FALSE, pc |-> "", cycles |-> 0, memoryCalls |-> 0,
   longTerm |-> <<>>, experiences |-> <<>>, projects |-> <<>>]

\* No directive has been returned yet.
NoDirective ==
  [action |-> <<>>, reason |-> <<>>, details |-> <<>>, source |-> "none"]

\* thinkAndAct is entered: formatMemoriesForAI() and getContextForAI().
FetchContext ==
  /\ cyclePc = "context"
  /\ getContextForAI
  /\ cycleLog' = NewCycle
  /\ cyclePc' = "think"
  /\ UNCHANGED <<isRunning, maxActionsPerCycle, actionsThisCycle, actionPlan,
                 actionOutcome, cycles, memoryVars, persistVars, gateVars,
                 sandboxVars,
                 shutdownVars, oracleVars>>

\* The larger of two integers.
Larger(a, b) == IF a >= b THEN a ELSE b

\* A cycle that goes on to its actions without storing the thought.
ThinkReturnsUnrecorded(type) ==
  /\ cyclePc = "think"
  /\ actionsThisCycle' = 0
  /\ cyclePc' = "test"
  /\ UNCHANGED <<context, isRunning, maxActionsPerCycle, actionPlan,
                 actionOutcome, cycles, cycleLog, memoryVars, persistVars,
                 gateVars, sandboxVars, shutdownVars, oracleVars>>

\* ai.think returns a thought, classifyThought gives its kind, addThought
\* stores it, and the action loop is come to.  A cycle is followed only
\* when the records it can add fit the run.
ThinkReturns(type) ==
  /\ cyclePc = "think"
  /\ memoryCalls + 1 + 2 * Larger(maxActionsPerCycle, 0) <= MaxLoopRecords
  /\ addThought(type)
  /\ actionsThisCycle' = 0
  /\ cyclePc' = "test"
  /\ UNCHANGED <<longTermMemory, experiences, projects, projectOp, context,
                 isRunning, maxActionsPerCycle, actionPlan, actionOutcome, cycles,
                 cycleLog, persistVars, gateVars, sandboxVars,
                 shutdownVars, oracleVars>>

\* A loop whose cycle's exception is not caught: autonomousLoop returns.
ThinkThrowsUncaught ==
  /\ cyclePc = "think"
  /\ cyclePc' = "done"
  /\ UNCHANGED <<context, isRunning, maxActionsPerCycle, actionsThisCycle,
                 actionPlan, actionOutcome, cycles, cycleLog, memoryVars,
                 persistVars, gateVars, sandboxVars, shutdownVars,
                 oracleVars>>

\* ai.think returns the completion's content, which is null: toLowerCase
\* throws in classifyThought, and autonomousLoop's catch shows the error and
\* sleeps.
ThinkThrows ==
  /\ cyclePc = "think"
  /\ cycleLog' = [cycleLog EXCEPT !.caught = TRUE]
  /\ cyclePc' = "sleep"
  /\ UNCHANGED <<context, isRunning, maxActionsPerCycle, actionsThisCycle,
                 actionPlan, actionOutcome, cycles, memoryVars, persistVars,
                 gateVars, sandboxVars,
                 shutdownVars, oracleVars>>

\* A while test that lets one more action through.
WhileTestOffByOne == actionsThisCycle <= maxActionsPerCycle /\ isRunning

\* while (actionsThisCycle < this.maxActionsPerCycle && this.isRunning)
WhileTest == actionsThisCycle < maxActionsPerCycle /\ isRunning

\* The while test holds: planAction is called.
LoopEnter ==
  /\ cyclePc = "test"
  /\ WhileTest
  /\ cyclePc' = "plan"
  /\ UNCHANGED <<context, isRunning, maxActionsPerCycle, actionsThisCycle,
                 actionPlan, actionOutcome, cycles, cycleLog, memoryVars,
                 persistVars, gateVars, sandboxVars,
                 shutdownVars, oracleVars>>

\* planAction returns a directive: wait breaks the loop, any other action is
\* given to executeAction.
PlanReturns(action) ==
  /\ cyclePc = "plan"
  /\ actionPlan' = action
  /\ IF action = "wait"
     THEN /\ cyclePc' = "consolidate"
          /\ cycleLog' = [cycleLog EXCEPT !.waited = TRUE,
                                          !.sessionAtWait = sessionMemory]
     ELSE /\ cyclePc' = "execute"
          /\ cycleLog' = [cycleLog EXCEPT !.dispatched = @ + 1]
  /\ UNCHANGED <<context, isRunning, maxActionsPerCycle, actionsThisCycle,
                 actionOutcome, cycles, memoryVars, persistVars, gateVars,
                 sandboxVars,
                 shutdownVars, oracleVars>>

\* The while test fails.
LoopExit ==
  /\ cyclePc = "test"
  /\ ~WhileTest
  /\ cyclePc' = "consolidate"
  /\ UNCHANGED <<context, isRunning, maxActionsPerCycle, actionsThisCycle,
                 actionPlan, actionOutcome, cycles, cycleLog, memoryVars,
                 persistVars, gateVars, sandboxVars,
                 shutdownVars, oracleVars>>

\* An executeAction that throws on a name it does not know.
ExecuteActionThrows(action, handled) ==
  IF action \in HandledActions
  THEN [success |-> handled, message |-> "handler", threw |-> FALSE]
  ELSE [success |-> FALSE, message |-> "Unknown action", threw |-> TRUE]

\* executeAction(actionPlan): a handler's result, or its exception turned
\* into a failure (handled is FALSE for both); the result of wait; the
\* default case's failure for any other name.
ExecuteAction(action, handled) ==
  IF action \in HandledActions
  THEN [success |-> handled, message |-> "handler", threw |-> FALSE]
  ELSE IF action = "wait"
  THEN [success |-> TRUE, message |-> "Pausing to contemplate...",
        threw |-> FALSE]
  ELSE [success |-> FALSE, message |-> "Unknown action", threw |-> FALSE]

\* The kind of the session thought a handler stores when its call of the
\* oracle succeeded.
HandlerThought(action) ==
  CASE action = "share_thoughts" -> "reflection"
    [] action = "make_joke" -> "humor"
    [] action = "philosophical_musing" -> "philosophy"
    [] OTHER -> "creativity"

\* A handler's addThought and then thinkAndAct's addAction: no timer, file
\* or network call lies between the two, so nothing runs between them.
addThoughtThenAction(type, action, outcome) ==
  LET buffer == TrimSession(Append(sessionMemory, ThoughtRecord(type)))
      record == [ActionRecord(action, outcome) EXCEPT !.seq = memoryCalls + 2]
  IN  /\ sessionMemory' = Append(buffer, record)
      /\ experiences' = TrimExperiences(Append(experiences, record))
      /\ memoryOp' = [OpRecord("addAction", 0) EXCEPT
                        !.prevOp = "addThought",
                        !.sessionBefore = Len(buffer)]
      /\ memoryCalls' = memoryCalls + 2

\* executeAction returns; a handler that succeeded has stored its thought;
\* the outcome is recorded by addAction and counted.  An exception of
\* executeAction would reach autonomousLoop's catch.
ExecuteReturns(handled) ==
  /\ cyclePc = "execute"
  /\ \E result \in {ExecuteAction(actionPlan, handled)} :
       /\ actionOutcome' = result
       /\ IF result.threw
          THEN /\ cyclePc' = "sleep"
               /\ cycleLog' = [cycleLog EXCEPT !.caught = TRUE]
               /\ UNCHANGED <<actionsThisCycle, sessionMemory, experiences,
                              memoryOp, memoryCalls>>
          ELSE /\ IF result.success /\ actionPlan \in HandledActions
                  THEN addThoughtThenAction(HandlerThought(actionPlan),
                                            actionPlan, "success")
                  ELSE addAction(actionPlan,
                                 IF result.success THEN "success"
                                 ELSE "failure")
               /\ actionsThisCycle' = actionsThisCycle + 1
               /\ cyclePc' = "delay"
               /\ cycleLog' =
                    [cycleLog EXCEPT
                       !.unknown = IF actionPlan \in HandledActions THEN ""
                                   ELSE actionPlan]
  /\ UNCHANGED <<longTermMemory, projects, projectOp, context, isRunning,
                 maxActionsPerCycle, actionPlan, cycles, persistVars,
                 gateVars, sandboxVars,
                 shutdownVars, oracleVars>>

\* The delay between two actions ends, and the while test is come to.
DelayEnds ==
  /\ cyclePc = "delay"
  /\ cyclePc' = "test"
  /\ UNCHANGED <<context, isRunning, maxActionsPerCycle, actionsThisCycle,
                 actionPlan, actionOutcome, cycles, cycleLog, memoryVars,
                 persistVars, gateVars, sandboxVars,
                 shutdownVars, oracleVars>>

\* if (Math.random() < 0.1) consolidateMemories()
MaybeConsolidate(drawn) ==
  /\ cyclePc = "consolidate"
  /\ IF drawn THEN consolidateMemories
     ELSE UNCHANGED <<longTermMemory, memoryOp>>
  /\ cyclePc' = "save"
  /\ UNCHANGED <<sessionMemory, experiences, projects, memoryCalls,
                 projectOp, context, isRunning, maxActionsPerCycle,
                 actionsThisCycle, actionPlan, actionOutcome, cycles, cycleLog,
                 persistVars, gateVars, sandboxVars,
                 shutdownVars, oracleVars>>

\* await this.memory.saveMemories(), which catches its own errors.
CycleSave(written) ==
  /\ cyclePc = "save"
  /\ saveMemories(written)
  /\ cyclePc' = "sleep"
  /\ UNCHANGED <<context, isRunning, maxActionsPerCycle, actionsThisCycle,
                 actionPlan, actionOutcome, cycles, cycleLog, memoryVars, gateVars,
                 sandboxVars,
                 shutdownVars, oracleVars>>

\* The sleep ends, and while (this.isRunning) starts the next cycle.
Sleep ==
  /\ cyclePc = "sleep"
  /\ isRunning
  /\ cycles < MaxCycles
  /\ cycles' = cycles + 1
  /\ cyclePc' = "context"
  /\ UNCHANGED <<context, isRunning, maxActionsPerCycle, actionsThisCycle,
                 actionPlan, actionOutcome, cycleLog, memoryVars, persistVars,
                 gateVars, sandboxVars,
                 shutdownVars, oracleVars>>

\* No thought and no completion has been received.
\* No formatForTwitter call has been made.
NoFormat == [content |-> <<>>, tweetContent |-> <<>>, calls |-> 0]

\* No getWorkspaceInfo has been called.
NoStats == [success |-> FALSE, fileCount |-> 0, dirCount |-> 0, totalSize |-> 0]

NoWalk == [pc |-> "idle", stack |-> <<>>, result |-> NoStats]

\* No loadMemories is under way.
NoLoad == [pc |-> "idle", read |-> 0]

OracleIdle ==
  /\ thought = <<>>
  /\ thoughtType = "none"
  /\ response = <<>>
  /\ directive = NoDirective
  /\ formatted = NoFormat
  /\ loading = NoLoad
  /\ walk = NoWalk

\* start(): isRunning is set and autonomousLoop is entered.
LoopInit ==
  /\ context = NoContext
  /\ cyclePc = "context"
  /\ isRunning = TRUE
  /\ maxActionsPerCycle \in MaxActionsInputs
  /\ actionsThisCycle = 0
  /\ actionPlan = ""
  /\ actionOutcome = NoOutcome
  /\ cycles = 0
  /\ cycleLog = NewCycle
  /\ shutdown = <<>>
  /\ processExited = FALSE
  /\ request = NoRequest

\* The loop with MAX_ACTIONS_PER_CYCLE unset.
LoopOff == LoopInit /\ maxActionsPerCycle = 1 /\ OracleIdle

LoopNext ==
  \/ FetchContext
  \/ \E type \in ClassifiedTypes : ThinkReturns(type)
  \/ ThinkThrows
  \/ LoopEnter
  \/ \E action \in Directives : PlanReturns(action)
  \/ LoopExit
  \/ \E handled \in BOOLEAN : ExecuteReturns(handled)
  \/ DelayEnds
  \/ \E drawn \in BOOLEAN : MaybeConsolidate(drawn)
  \/ \E written \in {0, 3} : CycleSave(written)
  \/ Sleep

(***************************************************************************)
(* The agent: the loop, and gracefulShutdown() called by the handlers of   *)
(* SIGINT, SIGTERM and uncaughtException.  A handler is run by the event   *)
(* loop, so it starts, and goes on after each of its awaits, only while    *)
(* autonomousLoop is suspended at one of its own awaits or has returned.   *)
(* shutdown[i].pc names the await the i-th call is suspended at:           *)
(*   "save"      one of the three writes of saveMemories(); written is the *)
(*               number of writes made, pending is the document the write  *)
(*               in flight was given                                       *)
(*   "snapshot"  the write of createMemorySnapshot()                       *)
(*   "exited"    process.exit(0) was called                                *)
(*   "rejected"  createMemorySnapshot() threw, and so did gracefulShutdown *)
(***************************************************************************)
\* The awaits of autonomousLoop, thinkAndAct and executeAction.
SuspensionPoints == {"think", "plan", "execute", "delay", "save", "sleep"}

LoopSuspended == cyclePc \in SuspensionPoints \cup {"done"}

\* The document the k-th write of saveMemories() is given.
StoreDocument(k) ==
  IF k = 1 THEN WriteJson(longTermMemory)
  ELSE IF k = 2 THEN WriteJson(experiences)
  ELSE WriteJson(projects)

\* A write that leaves the disk as it was.
WithResourceUnwritten(k, document) == disk

\* The disk once the k-th resource holds document.
WithResource(k, document) ==
  IF k = 1 THEN [disk EXCEPT !.longTerm = document]
  ELSE IF k = 2 THEN [disk EXCEPT !.experiences = document]
  ELSE [disk EXCEPT !.projects = document]

\* gracefulShutdown() up to its first await: isRunning is cleared and
\* saveMemories() starts its first write.
GracefulShutdown ==
  /\ ~processExited
  /\ LoopSuspended
  /\ Len(shutdown) < MaxSignals
  /\ isRunning' = FALSE
  /\ shutdown' = Append(shutdown, [pc |-> "save", written |-> 0,
                                   pending |-> StoreDocument(1)])
  /\ request' =
       IF request.made THEN request
       ELSE [made |-> TRUE, pc |-> cyclePc, cycles |-> cycles,
             memoryCalls |-> memoryCalls, longTerm |-> longTermMemory,
             experiences |-> experiences, projects |-> projects]
  /\ UNCHANGED <<context, cyclePc, maxActionsPerCycle, actionsThisCycle,
                 actionPlan, actionOutcome, cycles, cycleLog, processExited,
                 memoryVars, persistVars, gateVars, sandboxVars,
                 oracleVars>>

\* A write of the i-th call's saveMemories() ends.  When it succeeded the
\* resource holds the document and the next write is started, or, after
\* the third, createMemorySnapshot() is; when it failed the catch logs the
\* error, the writes after it are not made and createMemorySnapshot() is
\* started.
ShutdownWrite(i, ok) ==
  /\ ~processExited
  /\ LoopSuspended
  /\ i \in DOMAIN shutdown
  /\ shutdown[i].pc = "save"
  /\ IF ok
     THEN /\ disk' = WithResource(shutdown[i].written + 1, shutdown[i].pending)
          /\ shutdown' =
               [shutdown EXCEPT
                  ![i] = IF shutdown[i].written + 1 < 3
                         THEN [pc |-> "save",
                               written |-> shutdown[i].written + 1,
                               pending |->
                                 StoreDocument(shutdown[i].written + 2)]
                         ELSE [pc |-> "snapshot", written |-> 3,
                               pending |-> NoResource]]
     ELSE /\ disk' = disk
          /\ shutdown' =
               [shutdown EXCEPT ![i] = [pc |-> "snapshot",
                                        written |-> shutdown[i].written,
                                        pending |-> NoResource]]
  /\ UNCHANGED <<context, cyclePc, isRunning, maxActionsPerCycle,
                 actionsThisCycle, actionPlan, actionOutcome, cycles,
                 cycleLog, processExited, request, memoryVars, persistOp,
                 gateVars, sandboxVars, oracleVars>>

\* The write of the i-th call's createMemorySnapshot() ends: process.exit(0)
\* when it succeeded; when it failed gracefulShutdown() throws and the
\* process goes on.
ShutdownSnapshot(i, ok) ==
  /\ ~processExited
  /\ LoopSuspended
  /\ i \in DOMAIN shutdown
  /\ shutdown[i].pc = "snapshot"
  /\ shutdown' = [shutdown EXCEPT
                    ![i].pc = IF ok THEN "exited" ELSE "rejected"]
  /\ processExited' = ok
  /\ UNCHANGED <<context, cyclePc, isRunning, maxActionsPerCycle,
                 actionsThisCycle, actionPlan, actionOutcome, cycles,
                 cycleLog, request, memoryVars, persistVars, gateVars,
                 sandboxVars, oracleVars>>

\* The sleep ends and while (this.isRunning) fails: autonomousLoop returns.
LoopDone ==
  /\ ~processExited
  /\ cyclePc = "sleep"
  /\ ~isRunning
  /\ cyclePc' = "done"
  /\ UNCHANGED <<context, isRunning, maxActionsPerCycle, actionsThisCycle,
                 actionPlan, actionOutcome, cycles, cycleLog, memoryVars,
                 persistVars, gateVars, sandboxVars, shutdownVars,
                 oracleVars>>

\* The steps of autonomousLoop in a process that has not exited.
AgentLoopNext ==
  \/ (~processExited /\ FetchContext)
  \/ (~processExited /\ \E type \in ClassifiedTypes : ThinkReturns(type))
  \/ (~processExited /\ ThinkThrows)
  \/ (~processExited /\ LoopEnter)
  \/ (~processExited /\ \E action \in Directives : PlanReturns(action))
  \/ (~processExited /\ LoopExit)
  \/ (~processExited /\ \E handled \in BOOLEAN : ExecuteReturns(handled))
  \/ (~processExited /\ DelayEnds)
  \/ (~processExited /\ \E drawn \in BOOLEAN : MaybeConsolidate(drawn))
  \/ (~processExited /\ \E written \in {0, 3} : CycleSave(written))
  \/ (~processExited /\ cycles < MaxAgentCycles /\ Sleep)
  \/ LoopDone

\* The steps of the gracefulShutdown() calls after their first await.
ShutdownNext ==
  \/ \E i \in 1..MaxSignals, ok \in BOOLEAN : ShutdownWrite(i, ok)
  \/ \E i \in 1..MaxSignals, ok \in BOOLEAN : ShutdownSnapshot(i, ok)

AgentNext ==
  \/ AgentLoopNext
  \/ GracefulShutdown
  \/ ShutdownNext

(***************************************************************************)
(* The specifications: one per component.                                  *)
(***************************************************************************)
InitGate == GateInit /\ SandboxInit /\ MemoryEmpty /\ LoopOff

\* The gate alone; the sandbox and the store are constructed and never
\* called.
SpecGate == InitGate /\ [][GateNext]_vars

\* The sandbox alone.
InitSandbox == GateOff /\ SandboxInit /\ MemoryEmpty /\ LoopOff

SpecSandbox == InitSandbox /\ [][SandboxNext]_vars

InitMemory == GateOff /\ SandboxInit /\ MemoryInit /\ LoopOff

\* The memory store alone.
SpecMemory == InitMemory /\ [][MemoryNext]_vars

InitProjects == GateOff /\ SandboxInit /\ MemoryEmpty /\ LoopOff

InitPersist == GateOff /\ SandboxInit /\ MemoryLoaded /\ LoopOff

\* Persistence of the store.
SpecPersist == InitPersist /\ [][PersistNext]_vars

InitContext == GateOff /\ SandboxInit /\ MemoryEmpty /\ LoopOff

\* The store and the context read from it.
SpecContext == InitContext /\ [][ContextNext]_vars

InitLoop == GateOff /\ SandboxInit /\ MemoryEmpty /\ LoopInit /\ OracleIdle

\* The autonomous loop over the store.
SpecLoop == InitLoop /\ [][LoopNext]_vars

\* The loop when the oracle, the handlers and the disk answer: every await
\* of the cycle returns.
SpecLoopFair == SpecLoop /\ WF_vars(LoopNext)

\* The agent with MAX_ACTIONS_PER_CYCLE set to 2.
InitAgent == GateOff /\ SandboxInit /\ MemoryEmpty /\ LoopInit
             /\ maxActionsPerCycle = 2 /\ OracleIdle

\* The loop and the shutdown requests.
SpecAgent == InitAgent /\ [][AgentNext]_vars

\* The agent when every await returns: the oracle, the handlers, the timers
\* and the disk answer.
SpecAgentFair ==
  SpecAgent /\ WF_vars(AgentLoopNext) /\ WF_vars(ShutdownNext)

\* The oracle's thoughts and their kinds.
InitClassify ==
  /\ GateOff /\ SandboxInit /\ MemoryEmpty /\ LoopInit
  /\ maxActionsPerCycle = 1
  /\ OracleIdle

SpecClassify == InitClassify /\ [][ClassifyNext]_vars

\* The oracle's directives.
InitDirective ==
  /\ GateOff /\ SandboxInit /\ MemoryEmpty /\ LoopInit
  /\ maxActionsPerCycle = 1
  /\ OracleIdle

SpecDirective == InitDirective /\ [][DirectiveNext]_vars

InitStart == GateOff /\ SandboxInit /\ MemoryConstructed /\ LoopOff

\* The store from its construction on: init()'s load, then saves and loads
\* that succeed or fail.
SpecStart == InitStart /\ [][PersistNext]_vars

InitIds == GateOff /\ SandboxInit /\ MemoryEmpty /\ LoopOff

\* The records and projects the store creates as the clock goes.
SpecIds == InitIds /\ [][IdsNext]_vars

\* The project registry alone.
SpecProjects == InitProjects /\ [][ProjectsNext]_vars

(***************************************************************************)
(* The posting gate's claims.                                              *)
(***************************************************************************)
\* The successful emissions made on calendar day d.
SentOn(d) ==
  Cardinality({i \in DOMAIN successTimes : DateString(successTimes[i]) = d})

\* C1: the daily quota. tweetsToday never exceeds dailyTweetLimit, and no
\* calendar day sees more successful emissions than dailyTweetLimit (an emit
\* made once the limit is reached returns success:false).
C1_DailyQuota ==
  /\ tweetsToday <= dailyTweetLimit
  /\ \A i \in DOMAIN successTimes :
       SentOn(DateString(successTimes[i])) <= dailyTweetLimit

\* C2: the interval. Any two successful emissions are at least
\* minTweetInterval apart, and a tweet() issued less than minTweetInterval
\* after the previous successful emission returns success:false without
\* calling the transport.
C2_Interval ==
  /\ \A i \in 1..(Len(successTimes) - 1) :
       successTimes[i + 1] - successTimes[i] >= minTweetInterval
  /\ (lastCall # NoCall /\ lastCall.prev # 0
        /\ lastCall.at - lastCall.prev < minTweetInterval)
       => (~lastCall.sent /\ tweetPc = "idle" /\ ~tweetResult.success)

\* C2's case: after two successful emissions, an enabled gate has refused a
\* call made too soon after the second one.
C2_Witness ==
  /\ Len(successTimes) >= 2
  /\ IsEnabled
  /\ lastCall.prev = successTimes[Len(successTimes)]
  /\ lastCall.at - lastCall.prev < minTweetInterval
  /\ ~lastCall.sent
  /\ tweetResult = [success |-> FALSE, kind |-> "rate"]

\* The count of the local calendar day of the evaluation: tweetsToday when it was
\* counted on that day, 0 when it is an earlier day's.
CountOfToday == IF DateString(now) = lastResetDate THEN tweetsToday ELSE 0

\* C3: canTweet() is true exactly when the gate is enabled, the interval has
\* elapsed and the day's count is below dailyTweetLimit.
C3_CanEmitIff ==
  CanTweet <=> /\ IsEnabled
               /\ now - lastTweetTime >= minTweetInterval
               /\ CountOfToday < dailyTweetLimit

\* C4: the day rollover. The first call evaluated on a calendar day is
\* decided against a count of 0.
C4_Rollover ==
  (lastCall # NoCall /\ lastCall.first) => lastCall.count = 0

(***************************************************************************)
(* The sandbox's claims.                                                   *)
(***************************************************************************)
\* The last operation's requested path, resolved against the sandbox root.
Requested == FullPathOf[sandboxOp.path]

\* C5: containment. An operation whose requested path, resolved against the
\* root, is neither the root nor below it (by path segments) returns failure
\* and changes nothing; a create at ../outside.txt fails with an error that
\* mentions the sandbox.
C5_Containment ==
  /\ (sandboxOp.op # "none" /\ ~IsWithin(Requested, SandboxPath))
       => (~sandboxOp.success /\ ~sandboxOp.changed)
  /\ (sandboxOp.op = "createFile" /\ sandboxOp.path = <<".", ".", "/", "o", "u", "t", "s", "i", "d", "e", ".", "t", "x", "t">>)
       => sandboxOp.error = "Path outside sandbox not allowed"

\* The input has a parent-traversal segment or an absolute-path form.
HasTraversal(path) ==
  \/ (path # <<>> /\ path[1] = Slash)
  \/ \E i \in DOMAIN Segments(path) : Segments(path)[i] = DotDot

\* C6 (inputs): an operation called with a path that has a parent-traversal
\* segment or an absolute-path form returns failure.
C6_TraversalRejected ==
  (sandboxOp.op # "none" /\ HasTraversal(sandboxOp.path)) => ~sandboxOp.success

\* C6 (effect): after any sequence of sandbox operations the filesystem
\* outside the sandbox root is as it was at initialization.
C6_OutsideUnmodified ==
  /\ \A a \in DOMAIN fs :
       ~IsWithin(a, SandboxPath) => (a \in DOMAIN InitialFs /\ fs[a] = InitialFs[a])
  /\ \A a \in DOMAIN InitialFs : ~IsWithin(a, SandboxPath) => a \in DOMAIN fs

\* C7: createFile and updateFile return failure and write nothing when the
\* extension is neither absent nor allowed, or the content exceeds
\* MaxFileSize.
C7_ExtensionAndSize ==
  ( /\ sandboxOp.op \in {"createFile", "updateFile"}
    /\ \/ ~IsExtensionAllowed(Requested)
       \/ sandboxOp.content > MaxFileSize )
    => (~sandboxOp.success /\ ~sandboxOp.changed)

\* C8: a command whose name is not in the allow-list is rejected before
\* anything runs, and no accepted command runs a program outside the
\* allow-list.
C8_AllowList ==
  /\ (sandboxOp.op = "executeCommand"
        /\ BaseCommand(sandboxOp.command) \notin SafeCommands)
       => (~sandboxOp.success /\ ~sandboxOp.changed
             /\ sandboxOp.error = "Command not allowed in sandbox")
  /\ programsRun \subseteq SafeCommands

(***************************************************************************)
(* The memory store's claims.                                              *)
(***************************************************************************)
\* C9: the session buffer never holds more than 50 records.
C9_SessionCap == Len(sessionMemory) <= SessionHighWater

\* C10: the experience log never holds more than 200 records, and an
\* addAction that makes it exceed 200 leaves exactly 150.
C10_ExperienceCap ==
  /\ Len(experiences) <= ExperienceHighWater
  /\ (memoryOp.op = "addAction"
        /\ memoryOp.experiencesBefore + 1 > ExperienceHighWater)
       => Len(experiences) = ExperienceLowWater

\* C10's case: an addAction found the log at 200 records and cut it to 150.
C10_Witness ==
  /\ memoryOp.op = "addAction"
  /\ memoryOp.experiencesBefore = ExperienceHighWater
  /\ Len(experiences) = ExperienceLowWater

\* kept holds the most recent Len(kept) elements of full, in full's order.
IsRecentSuffix(full, kept) ==
  /\ Len(kept) <= Len(full)
  /\ \A i \in 1..Len(kept) : kept[i] = full[Len(full) - Len(kept) + i]

\* A step appended one record to the store old, and new is old with that
\* record, whole or cut to its most recent low records.
KeepsRecentOne(old, new, low) ==
  /\ new # <<>>
  /\ new[Len(new)].seq = memoryCalls'
  /\ IsRecentSuffix(Append(old, new[Len(new)]), new)
  /\ Len(new) \in {Len(old) + 1, low}

\* C11: the trim order. Every step that changes the session buffer, the
\* experience log or the archive leaves the most recently appended records
\* in their order (all of them, or the last 30, 150 and 80), the record the
\* call appended last among them.
C11_TrimOrder ==
  [][ /\ sessionMemory' # sessionMemory
         => KeepsRecentOne(sessionMemory, sessionMemory', SessionLowWater)
      /\ experiences' # experiences
         => KeepsRecentOne(experiences, experiences', ExperienceLowWater)
      /\ longTermMemory' # longTermMemory
         => /\ IsRecentSuffix(longTermMemory \o ImportantMemories(sessionMemory),
                              longTermMemory')
            /\ Len(longTermMemory') \in
                 {Len(longTermMemory) + Len(ImportantMemories(sessionMemory)),
                  ArchiveLowWater} ]_vars

\* C11's case: the session buffer and the experience log have been cut, and
\* a consolidateMemories has just cut the archive.
C11_Witness ==
  /\ Len(sessionMemory) < memoryCalls
  /\ Len(experiences) >= ExperienceLowWater
  /\ Len(experiences) < ExperienceHighWater - MaxHeadroom
  /\ memoryOp.op = "consolidate"
  /\ memoryOp.archiveBefore + memoryOp.returned > ArchiveHighWater
  /\ Len(longTermMemory) = ArchiveLowWater

\* C12: consolidation twice in succession. A consolidateMemories that
\* directly follows another one returns 0 and leaves the archive as the
\* first one left it.
C12_ConsolidateTwice ==
  (memoryOp.op = "consolidate" /\ memoryOp.prevOp = "consolidate")
    => (memoryOp.returned = 0 /\ Len(longTermMemory) = memoryOp.archiveBefore)

\* The records consolidation is to move: reflections, achievements and the
\* actions that succeeded.
Qualifies(r) ==
  \/ r.type \in {"reflection", "achievement"}
  \/ (r.type = "action" /\ r.outcome = "success")

\* The indices of the session records that qualify, and the k-th of them.
QualifyingIndices ==
  {i \in DOMAIN sessionMemory : Qualifies(sessionMemory[i])}

KthQualifying(k) ==
  CHOOSE i \in QualifyingIndices :
    Cardinality({j \in QualifyingIndices : j <= i}) = k

\* C13: what consolidation moves. After consolidateMemories the count it
\* returned is the number of qualifying session records, the archive ends
\* with those records in session order (as many of them as the cap keeps),
\* and the archive holds no record of another kind and no failed action.
C13_ConsolidateMoves ==
  /\ \A i \in DOMAIN longTermMemory : Qualifies(longTermMemory[i])
  /\ memoryOp.op = "consolidate"
       => /\ memoryOp.returned = Cardinality(QualifyingIndices)
          /\ \A k \in 1..memoryOp.returned :
                Len(longTermMemory) - memoryOp.returned + k >= 1
                  => longTermMemory[Len(longTermMemory) - memoryOp.returned + k]
                       = sessionMemory[KthQualifying(k)]
          /\ Len(longTermMemory) \in
               {memoryOp.archiveBefore + memoryOp.returned, ArchiveLowWater}

\* C13's case: a consolidateMemories moved two or more records out of a
\* session buffer that also holds a plain thought and a failed action.
C13_Witness ==
  /\ memoryOp.op = "consolidate"
  /\ memoryOp.returned >= 2
  /\ \E i \in DOMAIN sessionMemory :
       sessionMemory[i].type = "action" /\ sessionMemory[i].outcome = "failure"
  /\ \E i \in DOMAIN sessionMemory : sessionMemory[i].type = "achievement"
  /\ \E i \in DOMAIN sessionMemory : sessionMemory[i].type = "thought"

\* C14: the archive cap. The archive never holds more than 100 records, and
\* a consolidateMemories that makes it exceed 100 leaves exactly 80.
C14_ArchiveCap ==
  /\ Len(longTermMemory) <= ArchiveHighWater
  /\ (memoryOp.op = "consolidate"
        /\ memoryOp.archiveBefore + memoryOp.returned > ArchiveHighWater)
       => Len(longTermMemory) = ArchiveLowWater

\* C14's case: a consolidateMemories found an archive of 100 records, added
\* to it and cut it to 80.
C14_Witness ==
  /\ memoryOp.op = "consolidate"
  /\ memoryOp.archiveBefore = ArchiveHighWater
  /\ memoryOp.returned >= 1
  /\ Len(longTermMemory) = ArchiveLowWater

(***************************************************************************)
(* The project registry's claims.                                          *)
(***************************************************************************)
\* The number of entries of list equal to r, and of its active entries.
CountOf(list, r) == Cardinality({i \in DOMAIN list : list[i] = r})

ActiveCount(list) ==
  Cardinality({i \in DOMAIN list : list[i].status = "active"})

EntriesOf(list) == {list[i] : i \in DOMAIN list}

\* The number of active entries equal to r that the last cleanupProjects
\* demoted.
DemotedCount(r) == CountOf(projectOp.before, r) - CountOf(projects, r)

\* C15: the active-project cap. After cleanupProjects at most 2 projects
\* are active; the registry holds the same projects, of which only active
\* ones changed, and only their status, to completed; no demoted project
\* was created later than one that stayed active; the returned count is the
\* number demoted, which is the number of active projects beyond 2.
C15_ActiveCap ==
  projectOp.op = "cleanupProjects"
    => /\ ActiveCount(projects) <= 2
       /\ Len(projects) = Len(projectOp.before)
       /\ \A r \in EntriesOf(projects) \cup EntriesOf(projectOp.before) :
            /\ r.status \notin {"active", "completed"}
                 => CountOf(projects, r) = CountOf(projectOp.before, r)
            /\ r.status = "active"
                 => /\ DemotedCount(r) >= 0
                    /\ DemotedCount(r) > 0
                         => \A k \in EntriesOf(projects) :
                              k.status = "active" => k.created >= r.created
            /\ r.status = "completed"
                 => CountOf(projects, r) =
                      CountOf(projectOp.before, r)
                        + DemotedCount([r EXCEPT !.status = "active"])
       /\ projectOp.returned =
            ActiveCount(projectOp.before) - ActiveCount(projects)
       /\ projectOp.returned =
            IF ActiveCount(projectOp.before) > 2
            THEN ActiveCount(projectOp.before) - 2 ELSE 0

\* C15's case: cleanupProjects demoted a project of a registry that also
\* held a project that was not active, and whose order was not the order of
\* creation, latest first.
C15_Witness ==
  /\ projectOp.op = "cleanupProjects"
  /\ projectOp.returned >= 1
  /\ \E i \in DOMAIN projectOp.before : projectOp.before[i].status # "active"
  /\ \E i, j \in DOMAIN projectOp.before :
       /\ i < j
       /\ projectOp.before[i].created < projectOp.before[j].created
       /\ projectOp.before[i].status = "active"
       /\ projectOp.before[j].status = "active"

\* The index updateProject's id had in the registry it found: the first
\* project with that id.
UpdatedIndex ==
  CHOOSE i \in DOMAIN projectOp.before :
    /\ projectOp.before[i].id = projectOp.id
    /\ \A j \in DOMAIN projectOp.before :
         projectOp.before[j].id = projectOp.id => i <= j

\* C17: updateProject. On an id of the registry it returns the project,
\* in which exactly the fields of the update are replaced and lastWorked is
\* the time of the call, whatever the update supplied; every other project
\* is unchanged. On an unknown id it returns null and the registry is
\* unchanged.
C17_UpdateProject ==
  projectOp.op = "updateProject"
    => IF \E i \in DOMAIN projectOp.before :
            projectOp.before[i].id = projectOp.id
       THEN /\ projectOp.found
            /\ Len(projects) = Len(projectOp.before)
            /\ \A j \in DOMAIN projects :
                 j # UpdatedIndex => projects[j] = projectOp.before[j]
            /\ DOMAIN projects[UpdatedIndex] =
                 DOMAIN projectOp.before[UpdatedIndex] \cup DOMAIN projectOp.updates
            /\ projects[UpdatedIndex].lastWorked = projectOp.at
            /\ \A f \in DOMAIN projects[UpdatedIndex] \ {"lastWorked"} :
                 projects[UpdatedIndex][f] =
                   IF f \in DOMAIN projectOp.updates THEN projectOp.updates[f]
                   ELSE projectOp.before[UpdatedIndex][f]
       ELSE /\ ~projectOp.found
            /\ projects = projectOp.before

\* C17's case: an update that supplied a name, a status and, in another
\* call, a stale lastWorked reached a project of a registry of two or more.
C17_Witness ==
  /\ projectOp.op = "updateProject"
  /\ projectOp.found
  /\ Len(projects) >= 2
  /\ "lastWorked" \in DOMAIN projectOp.updates
  /\ projects[UpdatedIndex].lastWorked = projectOp.at
  /\ projects[UpdatedIndex].lastWorked # projectOp.updates["lastWorked"]
  /\ projects[UpdatedIndex].status = "archived"

\* C17's other case: updateProject was called with an id no project has,
\* on a registry that is not empty.
C17_WitnessUnknown ==
  /\ projectOp.op = "updateProject"
  /\ ~projectOp.found
  /\ projects # <<>>

(***************************************************************************)
(* Persistence's claims.                                                   *)
(***************************************************************************)
\* The objects of the documents on disk.
ObjectsOnDisk ==
  UNION {{r.json[i] : i \in DOMAIN r.json} :
           r \in {disk.longTerm, disk.experiences, disk.projects}}

\* C18: the round trip. A loadMemories that read its three resources and
\* whose last persistence call before it was a saveMemories that made its
\* three writes leaves the archive, the
\* experience log and the registry as they were when saveMemories was
\* called, and the session buffer as it found it; no plain thought, which
\* only the session buffer holds, is ever on disk.
C18_RoundTrip ==
  /\ [](\A object \in ObjectsOnDisk : <<"type", "thought">> \notin object)
  /\ [][ ( /\ persistOp'.calls # persistOp.calls
           /\ persistOp'.op = "load"
           /\ persistOp'.read = 3
           /\ persistOp.op = "save"
           /\ persistOp.written = 3 )
         => /\ longTermMemory' = persistOp.savedLongTerm
            /\ experiences' = persistOp.savedExperiences
            /\ projects' = persistOp.savedProjects
            /\ sessionMemory' = sessionMemory ]_vars

\* C18's case: a saveMemories wrote an archive, an experience log and a
\* registry that hold records, while the session buffer held a record, and
\* the loadMemories after it has run.
C18_Witness ==
  /\ persistOp.op = "load"
  /\ persistOp.read = 3
  /\ persistOp.prevOp = "save"
  /\ persistOp.written = 3
  /\ persistOp.savedProjects # <<>>
  /\ Len(persistOp.savedLongTerm) >= 2
  /\ persistOp.savedExperiences # <<>>
  /\ persistOp.sessionBefore # <<>>
  /\ sessionMemory = persistOp.sessionBefore
  /\ projects = persistOp.savedProjects

(***************************************************************************)
(* The context's and the loop's claims.                                    *)
(***************************************************************************)
\* The last count session records of kind thought.
LastThoughts(count) ==
  SliceLast(SelectSeq(sessionMemory, LAMBDA m : m.type = "thought"), count)

\* C16: the context windows. The context getContextForAI has just returned
\* holds the last 5 session records of kind thought (all of them when there
\* are fewer) and the last 3 entries of the experience log.
C16_ContextWindows ==
  (context.calls > 0 /\ context.readAt = memoryCalls)
    => /\ context.recentThoughts = LastThoughts(5)
       /\ context.recentActions = SliceLast(experiences, 3)

\* The part of C19 about wait: once the directive is wait, the cycle is at
\* its consolidation, its save or its sleep (or over), the session buffer
\* is as the directive found it, and no record of the experience log is of
\* the action wait.
WaitEndsTheCycle ==
  /\ cycleLog.waited
       => /\ cyclePc \in {"consolidate", "save", "sleep", "context"}
          /\ sessionMemory = cycleLog.sessionAtWait
  /\ \A i \in DOMAIN experiences : experiences[i].action # "wait"

\* C19 as stated: a cycle that has come to its action loop has given
\* executeAction at most maxActionsPerCycle actions, and wait ends the
\* cycle's actions unrecorded.
C19_BudgetAsStated ==
  /\ cyclePc \in {"test", "plan", "execute", "delay", "consolidate", "save",
                  "sleep"}
       => cycleLog.dispatched <= maxActionsPerCycle
  /\ WaitEndsTheCycle

\* C19: the per-cycle budget. A cycle gives executeAction at most
\* maxActionsPerCycle actions, none when maxActionsPerCycle is negative,
\* and wait ends the cycle's actions unrecorded.
C19_Budget ==
  /\ cycleLog.dispatched <= Larger(maxActionsPerCycle, 0)
  /\ actionsThisCycle <= Larger(maxActionsPerCycle, 0)
  /\ WaitEndsTheCycle

\* C19's case: with a budget of 2, a cycle dispatched one action, was then
\* told to wait, and has reached its save.
C19_Witness ==
  /\ maxActionsPerCycle = 2
  /\ cycleLog.dispatched = 1
  /\ cycleLog.waited
  /\ cyclePc = "save"
  /\ Len(experiences) = 1

\* C20: the unknown action. While the last action of the cycle is one the
\* dispatcher does not know, executeAction has returned a failure and has
\* not thrown, the last record of the session buffer and of the experience
\* log is that action with outcome failure, and the cycle is on its way;
\* and a cycle that gave executeAction an unknown action comes to its
\* sleep, through consolidation and save, not through the loop's catch.
C20_UnknownAction ==
  /\ [](cycleLog.unknown # ""
          => /\ ~actionOutcome.success
             /\ ~actionOutcome.threw
             /\ ~cycleLog.caught
             /\ cyclePc \in {"delay", "test", "plan", "execute", "consolidate",
                             "save", "sleep", "context"}
             /\ experiences # <<>>
             /\ experiences[Len(experiences)].action = cycleLog.unknown
             /\ experiences[Len(experiences)].outcome = "failure"
             /\ sessionMemory[Len(sessionMemory)]
                  = experiences[Len(experiences)])
  /\ (cyclePc = "execute" /\ actionPlan \notin HandledActions)
       ~> (cyclePc = "sleep" /\ persistOp.op = "save" /\ ~cycleLog.caught)

\* C20's case: a cycle whose last action was unknown to the dispatcher has
\* recorded the failure, saved and reached its sleep.
C20_Witness ==
  /\ cycleLog.unknown = "dance"
  /\ cyclePc = "sleep"
  /\ persistOp.op = "save"
  /\ experiences[Len(experiences)] =
       [seq |-> memoryCalls, id |-> now, type |-> "action",
        action |-> "dance", outcome |-> "failure"]

(***************************************************************************)
(* The agent's claims.                                                     *)
(***************************************************************************)
\* C21: loop resilience. A cycle that threw is in autonomousLoop's catch,
\* at its sleep, or the next cycle has just been started; the loop has
\* ended, or the process has exited, only after a shutdown request; and a
\* cycle that threw is followed by another cycle unless a shutdown is
\* requested.
C21_LoopResilience ==
  /\ [](cycleLog.caught => cyclePc \in {"sleep", "context", "done"})
  /\ [](cyclePc = "done" \/ processExited => request.made /\ ~isRunning)
  /\ \A n \in 0..(MaxAgentCycles - 1) :
       (cycleLog.caught /\ cyclePc = "sleep" /\ cycles = n)
         ~> (cycles = n + 1 \/ request.made)

\* C21's case: a cycle threw, the loop slept and started the next cycle,
\* and no shutdown was requested.
C21_Witness ==
  /\ cycleLog.caught
  /\ cycles = 1
  /\ cyclePc = "context"
  /\ ~request.made
  /\ isRunning

\* The process has ended: process.exit(0) was called, or autonomousLoop
\* has returned and no gracefulShutdown() call is still at an await.
ProcessEnded ==
  \/ processExited
  \/ /\ cyclePc = "done"
     /\ \A i \in DOMAIN shutdown : shutdown[i].pc \in {"exited", "rejected"}

\* Some gracefulShutdown() call made the three writes of its save.
SavedOnShutdown == \E i \in DOMAIN shutdown : shutdown[i].written = 3

\* The three resources hold the stores as the first request found them.
DiskAsAtRequest ==
  /\ disk.longTerm = WriteJson(request.longTerm)
  /\ disk.experiences = WriteJson(request.experiences)
  /\ disk.projects = WriteJson(request.projects)

\* Each resource holds its store as the first request found it or as it
\* stands now.
DiskSinceRequest ==
  /\ disk.longTerm \in {WriteJson(request.longTerm), WriteJson(longTermMemory)}
  /\ disk.experiences
       \in {WriteJson(request.experiences), WriteJson(experiences)}
  /\ disk.projects \in {WriteJson(request.projects), WriteJson(projects)}

CallsInFlight == {"think", "plan", "execute"}

\* C23: cancellation points. The process does not exit while a call of the
\* oracle or of an action handler is in flight, and when the request came
\* while executeAction was in flight the process exits only after the
\* action's outcome was recorded.
C23_CancellationPoints ==
  processExited
    => /\ cyclePc \notin CallsInFlight
       /\ request.pc = "execute" => memoryCalls > request.memoryCalls

\* The saveMemories() calls in flight: the cycle's, and those of the
\* gracefulShutdown() calls.
SavesInFlight ==
  (IF cyclePc = "save" /\ ~processExited THEN 1 ELSE 0)
    + Cardinality({i \in DOMAIN shutdown :
                     shutdown[i].pc = "save" /\ ~processExited})

\* C24: sequential access. At no time are two saveMemories() calls, which
\* read the store and write its resources, in progress together.
C24_SequentialAccess == SavesInFlight <= 1

(***************************************************************************)
(* The claims about the oracle's thought and directive.                    *)
(***************************************************************************)
\* The keywords that are part of the thought, lower-cased.
MatchingKeywords ==
  {k \in ReflectionKeywords \cup DecisionKeywords \cup CuriosityKeywords
          \cup AchievementKeywords : Includes(ToLowerCase(thought), k)}

\* C25: thought classification. The kind is that of the first of the
\* groups reflection, decision, curiosity, achievement a keyword of which
\* the thought has, thought when it has none; a thought whose only keyword
\* is wonder is a curiosity and one whose only keyword is completed an
\* achievement.
C25_Classification ==
  thoughtType # "none"
    => /\ thoughtType =
            IF MatchingKeywords \cap ReflectionKeywords # {} THEN "reflection"
            ELSE IF MatchingKeywords \cap DecisionKeywords # {}
              THEN "decision"
            ELSE IF MatchingKeywords \cap CuriosityKeywords # {}
              THEN "curiosity"
            ELSE IF MatchingKeywords \cap AchievementKeywords # {}
              THEN "achievement"
            ELSE "thought"
       /\ MatchingKeywords = {<<"w", "o", "n", "d", "e", "r">>} => thoughtType = "curiosity"
       /\ MatchingKeywords = {<<"c", "o", "m", "p", "l", "e", "t", "e", "d">>} => thoughtType = "achievement"
       /\ MatchingKeywords = {} => thoughtType = "thought"

\* C25's case: a thought with a curiosity and an achievement keyword, one
\* of them capitalised, was classified as a curiosity.
C25_Witness ==
  /\ thought = <<"C", "o", "m", "p", "l", "e", "t", "e", "d", " ", "w", "o", "n", "d", "e", "r">>
  /\ thoughtType = "curiosity"

\* The index of the first line that starts with the prefix (0: none).
FirstLineWith(prefix) ==
  IF \E i \in DOMAIN response : StartsWith(response[i], prefix)
  THEN CHOOSE i \in DOMAIN response :
         /\ StartsWith(response[i], prefix)
         /\ \A j \in 1..(i - 1) : ~StartsWith(response[j], prefix)
  ELSE 0

\* The field the first line with the prefix gives, or the default.
FirstField(prefix, default) ==
  IF FirstLineWith(prefix) = 0 THEN default
  ELSE FieldOf(response[FirstLineWith(prefix)], prefix)

\* C26: directive parsing. For each of the prefixes ACTION:, REASON: and
\* DETAILS: the first line of the completion that starts with it gives the
\* field, and the action is wait when no line starts with ACTION: and when
\* the call of the oracle failed.
C26_DirectiveParsing ==
  /\ directive.source = "parsed"
       => /\ directive.action
               = FirstField(ActionPrefix, DefaultDirective.action)
          /\ directive.reason
               = FirstField(ReasonPrefix, DefaultDirective.reason)
          /\ directive.details
               = FirstField(DetailsPrefix, DefaultDirective.details)
  /\ directive.source = "failed" => directive.action = DefaultDirective.action

(***************************************************************************)
(* The posting gate's state effect.                                        *)
(***************************************************************************)
\* A step of tweet(): the call up to the transport, or its return.
TweetStep == lastCall' # lastCall \/ tweetPc' # tweetPc

\* C27: the state effect of tweet(). A step of tweet() sets lastTweetTime
\* to the current time and adds 1 to tweetsToday when it returns the
\* transport's success, and leaves both as they were when it rejects the
\* call for the rate or the content, when it calls the transport, and when
\* the transport answers an error or throws; every rejection and failure
\* is returned as a result with success false.
C27_EmitEffect ==
  /\ [][TweetStep =>
          IF tweetPc = "posting" /\ tweetResult'.success
          THEN /\ lastTweetTime' = now
               /\ tweetsToday' = tweetsToday + 1
               /\ tweetResult'.kind = "sent"
          ELSE /\ lastTweetTime' = lastTweetTime
               /\ tweetsToday' = tweetsToday
               /\ tweetPc' = "idle"
                    => /\ ~tweetResult'.success
                       /\ tweetResult'.kind
                            \in {"rate", "unsuitable", "error", "throw"}]_vars
  /\ [](tweetResult.success <=> tweetResult.kind = "sent")

\* C27's case: after one successful emission a later call reached the
\* transport, which threw: the call returned a failure and the gate holds
\* the time and the count of the emission.
C27_Witness ==
  /\ tweetResult = [success |-> FALSE, kind |-> "throw"]
  /\ tweetPc = "idle"
  /\ Len(successTimes) = 1
  /\ lastCall.sent
  /\ lastCall.at > successTimes[1]
  /\ lastTweetTime = successTimes[1]
  /\ tweetsToday = 1

(***************************************************************************)
(* The sandbox's results.                                                  *)
(***************************************************************************)
SandboxOperations ==
  {"createFile", "readFile", "updateFile", "deleteFile", "listFiles",
   "createDirectory", "executeCommand", "getWorkspaceInfo"}

\* C28: the result shape. Every operation of the sandbox returns, and what
\* it returns has success true and a message, or success false, an error
\* and a message.
C28_ResultShape ==
  sandboxOp.op # "none"
    => /\ sandboxOp.op \in SandboxOperations
       /\ ~sandboxOp.threw
       /\ sandboxOp.message # ""
       /\ ~sandboxOp.success => sandboxOp.error # ""

\* C28's case: the sandbox directory was deleted, and getWorkspaceInfo,
\* whose readdir then rejects, returned a failure.
C28_Witness ==
  /\ sandboxOp.op = "getWorkspaceInfo"
  /\ ~Exists(fs, SandboxPath)
  /\ ~sandboxOp.success
  /\ sandboxOp.error = "ENOENT"
  /\ sandboxOp.message = "failed"

(***************************************************************************)
(* The store's failures.                                                   *)
(***************************************************************************)
\* The k-th store: the archive, the experience log, the registry.
Store(k) ==
  IF k = 1 THEN longTermMemory ELSE IF k = 2 THEN experiences ELSE projects

\* C29: persistence failures. A loadMemories() that fails after read
\* resources and a saveMemories() that fails after written writes return
\* to their caller: the load has replaced the stores of the resources it
\* read and has left the others, and the session buffer, as they were;
\* the save has left the store as it was and has written the resources
\* before the failing one.
C29_PersistenceFailures ==
  /\ [](~persistOp.threw)
  /\ [][persistOp'.calls # persistOp.calls /\ persistOp'.op = "load"
          => /\ sessionMemory' = sessionMemory
             /\ \A k \in 1..3 :
                  Store(k)' = IF k <= persistOp'.read /\ Resource(k).exists
                              THEN ReadJson(Resource(k))
                              ELSE Store(k)]_vars
  /\ [][persistOp'.calls # persistOp.calls /\ persistOp'.op = "save"
          => /\ UNCHANGED memoryVars
             /\ \A k \in 1..3 :
                  Resource(k)' = IF k <= persistOp'.written
                                 THEN WriteJson(Store(k))
                                 ELSE Resource(k)]_vars

\* C29's case: the first load of a store, whose resources an earlier run
\* wrote, failed on experiences.json: the archive is loaded, and the
\* experience log and the registry are empty.
C29_Witness ==
  /\ persistOp.op = "load"
  /\ persistOp.calls = 1
  /\ persistOp.read = 1
  /\ disk.experiences.exists
  /\ disk.experiences.json # <<>>
  /\ longTermMemory = ReadJson(disk.longTerm)
  /\ longTermMemory # <<>>
  /\ experiences = <<>>
  /\ projects = <<>>

(***************************************************************************)
(* The identifiers.                                                        *)
(***************************************************************************)
\* The records the store holds.
RecordsHeld ==
  {sessionMemory[i] : i \in DOMAIN sessionMemory}
    \cup {experiences[i] : i \in DOMAIN experiences}
    \cup {longTermMemory[i] : i \in DOMAIN longTermMemory}

\* C30: unique ids. No two records the store holds that distinct
\* addThought/addAction calls created have the same id, and no two
\* projects of the registry have.
C30_UniqueIds ==
  /\ \A r1, r2 \in RecordsHeld : r1.seq # r2.seq => r1.id # r2.id
  /\ \A i, j \in DOMAIN projects : i # j => projects[i].id # projects[j].id

(***************************************************************************)
(* The record kinds.                                                       *)
(***************************************************************************)
\* The kinds a record of the store is said to have.
RecordKinds ==
  {"thought", "reflection", "decision", "curiosity", "achievement", "action"}

\* C31: record kinds. Every record the loop and its handlers put into the
\* store (the session buffer, the experience log, the archive) has a kind
\* among thought, reflection, decision, curiosity, achievement and action.
C31_RecordKinds ==
  \A r \in RecordsHeld : r.type \in RecordKinds

(***************************************************************************)
(* The project handlers of the agent (src/src/main.js) over the registry.  *)
(* Project names are strings of characters here.                           *)
(***************************************************************************)
\* The characters /[a-zA-Z0-9]/ matches.
AlphaNumeric ==
  {"a", "b", "c", "d", "e", "j", "o", "p", "r", "t", "A", "P",
   "0", "1", "2", "3", "4", "5", "6", "7", "8", "9"}

\* Number.prototype.toString, base 10.
Digits == <<"0", "1", "2", "3", "4", "5", "6", "7", "8", "9">>

RECURSIVE DecimalString(_)
DecimalString(n) ==
  IF n < 10 THEN <<Digits[n + 1]>>
  ELSE DecimalString(n \div 10) \o <<Digits[(n % 10) + 1]>>

\* What details.match(/PROJECT_NAME:([a-zA-Z0-9_-]+)/) captures: <<>> when
\* the details carry no marker, else a name of letters, digits, _ and -.
NameMatches ==
  { <<>>, <<"a", "b">>, <<"A", "b">>, <<"a", "_", "b">> }

\* `Project_${Date.now()}`
DefaultProjectName == <<"P", "r", "o", "j", "e", "c", "t", "_">> \o DecimalString(now)

\* projectName.replace(/[^a-zA-Z0-9]/g, '')
CleanName(name) == SelectSeq(name, LAMBDA c : c \in AlphaNumeric)

\* updateProject(projectId, updates) on a registry: what it leaves.
Updated(list, projectId, updates) ==
  IF \E i \in DOMAIN list : list[i].id = projectId
  THEN LET projectIndex ==
             CHOOSE i \in DOMAIN list :
               /\ list[i].id = projectId
               /\ \A j \in 1..(i - 1) : list[j].id # projectId
       IN  [list EXCEPT
              ![projectIndex] =
                [Spread(list[projectIndex], updates) EXCEPT !.lastWorked = now]]
  ELSE list

\* oldProjects.forEach(project => updateProject(project.id, { status:
\* 'archived' })), from the i-th of oldProjects on.
RECURSIVE ArchiveFrom(_, _, _)
ArchiveFrom(list, oldProjects, i) ==
  IF i > Len(oldProjects) THEN list
  ELSE ArchiveFrom(Updated(list, oldProjects[i].id,
                           [f \in {"status"} |-> "archived"]),
                   oldProjects, i + 1)

\* "if (activeProjects.length >= 5)"
ActiveLimit == 5

\* activeProjects.slice(0, -2)
SliceButLastTwo(list) ==
  IF Len(list) > 2 THEN SubSeq(list, 1, Len(list) - 2) ELSE <<>>

\* The registry after handleStartProject's automatic cleanup.
AfterAutoCleanup ==
  IF Len(GetActiveProjects) >= ActiveLimit
  THEN ArchiveFrom(projects, SliceButLastTwo(GetActiveProjects), 1)
  ELSE projects

\* activeProjects.find(project => project.name.toLowerCase() ===
\* projectName.toLowerCase()) found a project; activeProjects is the list
\* taken before the automatic cleanup.
HasSimilar(projectName) ==
  \E i \in DOMAIN GetActiveProjects :
    ToLowerCase(GetActiveProjects[i].name) = ToLowerCase(projectName)

\* The directory of a project: projects/<the name in lower case>.
ProjectDirectory(name) ==
  Join(SandboxPath,
       <<"p", "r", "o", "j", "e", "c", "t", "s", "/">> \o ToLowerCase(name))

\* handleStartProject(details): the automatic cleanup, the name of the
\* marker or the default one, the duplicate check, addProject with the
\* cleaned name, and the project's directory (createDirectory's result is
\* not looked at).
HandleStartProject(match) ==
  /\ projectOp.calls < MaxProjectCalls
  /\ Len(projects) < MaxRegistry
  /\ LET projectName == IF match # <<>> THEN match ELSE DefaultProjectName
         fullPath == ProjectDirectory(CleanName(projectName))
     IN  IF HasSimilar(projectName)
         THEN /\ projects' = AfterAutoCleanup
              /\ projectOp' =
                   ProjectOpRecord("handleStartProject", now,
                                   [f \in {"name"} |-> projectName], FALSE,
                                   Len(SliceButLastTwo(GetActiveProjects)))
              /\ fs' = fs
         ELSE /\ projects' =
                   Append(AfterAutoCleanup,
                          [id |-> now, name |-> CleanName(projectName),
                           status |-> "active", created |-> now,
                           lastWorked |-> now])
              /\ projectOp' =
                   ProjectOpRecord("handleStartProject", now,
                                   [f \in {"name"} |-> projectName], TRUE,
                                   Len(SliceButLastTwo(GetActiveProjects)))
              /\ fs' = IF IsPathSafe(fullPath) /\ CanEnsureDir(fs, fullPath)
                       THEN EnsureDir(fs, fullPath) ELSE fs
  /\ UNCHANGED <<sandboxOp, programsRun, sandboxCalls, sessionMemory,
                 longTermMemory, experiences, memoryOp, memoryCalls,
                 gateVars, persistVars, loopVars>>

\* handleContinueProject(details): the first active project is worked on.
HandleContinueProject ==
  /\ projectOp.calls < MaxProjectCalls
  /\ IF GetActiveProjects = <<>>
     THEN /\ projects' = projects
          /\ projectOp' =
               ProjectOpRecord("handleContinueProject", UnknownId, NoFields,
                               FALSE, 0)
     ELSE /\ projects' =
               Updated(projects, GetActiveProjects[1].id,
                       [f \in {"lastWorked"} |-> now])
          /\ projectOp' =
               ProjectOpRecord("handleContinueProject",
                               GetActiveProjects[1].id,
                               [f \in {"lastWorked"} |-> now], TRUE, 0)
  /\ UNCHANGED <<sessionMemory, longTermMemory, experiences, memoryOp,
                 memoryCalls, gateVars, sandboxVars, persistVars, loopVars>>

\* The updates updateProject is called with: a status, and a name.
HandlerUpdateInputs ==
  { [f \in {"status"} |-> st] : st \in {"active", "archived"} }
    \cup { [f \in {"name"} |-> <<"A", "b">>] }

\* The registry initializeSystems' cleanupProjects leaves of four projects
\* of earlier runs: the latest created first, the first two active.
CleanedRegistry ==
  [i \in 1..4 |->
     [id |-> 5 - i, name |-> <<"p">> \o DecimalString(5 - i),
      status |-> IF i <= KeptActive THEN "active" ELSE "completed",
      created |-> 5 - i, lastWorked |-> 5 - i]]

\* The handlers and the registry's operations, and the clock.
HandlersNext ==
  \/ \E match \in NameMatches :
       projectOp.calls < MaxHandlerCalls /\ HandleStartProject(match)
  \/ (projectOp.calls < MaxHandlerCalls /\ HandleContinueProject)
  \/ \E projectId \in ProjectIdInputs, updates \in HandlerUpdateInputs :
       projectOp.calls < MaxHandlerCalls /\ UpdateProject(projectId, updates)
  \/ (projectOp.calls < MaxHandlerCalls /\ CleanupProjects)
  \/ (now < StartTime + MaxHandlerElapsed /\ Tick)

\* The agent after initializeSystems, with an empty registry or with the
\* registry of earlier runs.
InitHandlers ==
  /\ GateOff /\ SandboxInit /\ LoopOff
  /\ sessionMemory = <<>> /\ longTermMemory = <<>> /\ experiences = <<>>
  /\ memoryOp = [op |-> "none", prevOp |-> "none", sessionBefore |-> 0,
                 experiencesBefore |-> 0,
                 archiveBefore |-> 0, consolidations |-> 0, returned |-> 0]
  /\ memoryCalls = 0
  /\ projects \in {<<>>, CleanedRegistry}
  /\ projectOp = NoProjectOp
  /\ disk = [longTerm |-> NoResource, experiences |-> NoResource,
             projects |-> ResourceOf(projects)]
  /\ persistOp = NoPersistOp

SpecHandlers == InitHandlers /\ [][HandlersNext]_vars

(***************************************************************************)
(* The project handlers' claims.                                           *)
(***************************************************************************)
\* The active projects of list whose name is name, ignoring case.
ActiveNamed(list, name) ==
  {i \in DOMAIN list :
     list[i].status = "active" /\ ToLowerCase(list[i].name) = ToLowerCase(name)}

\* C32: unique active names. No two active projects of the registry have
\* names that are equal ignoring case; a start of a project, or a rename,
\* to the name of an active project (of another one, for a rename) is
\* rejected and leaves the registry as it was.
C32_UniqueActiveNames ==
  /\ \A i, j \in DOMAIN projects :
       (i # j /\ projects[i].status = "active")
         => j \notin ActiveNamed(projects, projects[i].name)
  /\ (projectOp.op = "handleStartProject"
        /\ ActiveNamed(projectOp.before, projectOp.updates["name"]) # {})
       => (~projectOp.found /\ projects = projectOp.before)
  /\ (projectOp.op = "updateProject" /\ projectOp.found
        /\ "name" \in DOMAIN projectOp.updates
        /\ ActiveNamed(projectOp.before, projectOp.updates["name"])
             \ {UpdatedIndex} # {})
       => projects = projectOp.before

\* The number of projects of list with the id, and of its active ones.
WithId(list, id) == Cardinality({i \in DOMAIN list : list[i].id = id})

ActiveWithId(list, id) ==
  Cardinality({i \in DOMAIN list :
                 list[i].id = id /\ list[i].status = "active"})

\* The ids of the projects of list that are surely among its 2 most
\* recently created active ones: at most 2 active projects, the project
\* itself counted, were created at its instant or later.
MostRecentActive(list) ==
  {list[i].id : i \in
     {k \in DOMAIN list :
        /\ list[k].status = "active"
        /\ Cardinality({j \in DOMAIN list :
                          /\ list[j].status = "active"
                          /\ list[j].created >= list[k].created}) <= 2}}

\* A step took a project that was active out of the active ones.
LeavesActive ==
  \E i \in DOMAIN projects :
    ActiveWithId(projects', projects[i].id)
      < ActiveWithId(projects, projects[i].id)

\* C33: the project lifecycle. No step removes a project from the
\* registry; a step that takes a project out of the active ones is a
\* cleanupProjects or a handleStartProject, and it leaves the 2 most
\* recently created active projects active.
C33_Lifecycle ==
  [][ /\ Len(projects') >= Len(projects)
      /\ \A i \in DOMAIN projects :
           WithId(projects', projects[i].id) >= WithId(projects, projects[i].id)
      /\ LeavesActive
           => /\ projectOp'.op \in {"cleanupProjects", "handleStartProject"}
              /\ \A id \in MostRecentActive(projects) :
                   ActiveWithId(projects', id) >= ActiveWithId(projects, id)
    ]_vars

(***************************************************************************)
(* The cycle's phases.                                                     *)
(***************************************************************************)
\* The steps from one phase of a cycle to the next: the thought, the
\* actions (test, plan, execute, delay), the consolidation, the save and
\* the sleep; a cycle that threw goes to the sleep of the catch.
PhaseOrder ==
  { <<"context", "think">>, <<"think", "test">>, <<"test", "plan">>,
    <<"plan", "execute">>, <<"execute", "delay">>, <<"delay", "test">>,
    <<"test", "consolidate">>, <<"plan", "consolidate">>,
    <<"consolidate", "save">>, <<"save", "sleep">>, <<"sleep", "context">>,
    <<"think", "sleep">>, <<"execute", "sleep">> }

\* C34: the order of a cycle's phases. The phases follow one another in
\* the order of PhaseOrder. When an action is planned the cycle's thought
\* has been recorded, and so has the outcome of every action dispatched
\* before, the last of them as the latest record of the experience log. A
\* saveMemories is made on the step from the save to the sleep and on no
\* other step, so once in a cycle, after the actions and the consolidation;
\* the sleep of a cycle that did not throw follows that save; the next
\* cycle starts from the sleep.
C34_PhaseOrder ==
  [][ /\ cyclePc' # cyclePc => <<cyclePc, cyclePc'>> \in PhaseOrder
      /\ (cyclePc' = "plan" /\ cyclePc # "plan")
           => /\ memoryCalls >= context.readAt + 1 + actionsThisCycle
              /\ actionsThisCycle = cycleLog.dispatched
              /\ actionsThisCycle > 0
                   => /\ experiences # <<>>
                      /\ experiences[Len(experiences)].seq = memoryCalls
                      /\ experiences[Len(experiences)].action = actionPlan
      /\ persistOp' # persistOp
           <=> (cyclePc = "save" /\ cyclePc' = "sleep")
      /\ (cyclePc = "save" /\ cyclePc' = "sleep")
           => /\ persistOp'.op = "save"
              /\ persistOp'.calls = persistOp.calls + 1
              /\ ~cycleLog.caught
      /\ (cyclePc' = "sleep" /\ cyclePc # "sleep" /\ ~cycleLog'.caught)
           => cyclePc = "save"
      /\ longTermMemory' # longTermMemory => cyclePc = "consolidate"
      /\ (sessionMemory' # sessionMemory \/ experiences' # experiences)
           => cyclePc \in {"think", "execute"}
      /\ cycles' # cycles
           => (cyclePc = "sleep" /\ cyclePc' = "context"
                 /\ cycles' = cycles + 1)
    ]_vars

\* C34's case: a second cycle that recorded its thought, dispatched an
\* action, consolidated and saved has reached its sleep.
C34_Witness ==
  /\ cycles >= 1
  /\ cyclePc = "sleep"
  /\ ~cycleLog.caught
  /\ cycleLog.dispatched >= 1
  /\ memoryOp.op = "consolidate"
  /\ persistOp.calls = 2

(***************************************************************************)
(* Consolidation's frame.                                                  *)
(***************************************************************************)
\* The records of a buffer.
RecordsOf(buffer) == {buffer[i] : i \in DOMAIN buffer}

MaxContentLength == 280

\* The room "..." takes.
EllipsisLength == 3

Ellipsis == <<".", ".", ".">>

MarkerPrefix == <<"F", "I", "L", "E", "_", "P", "A", "T", "H", ":">>

\* /FILE_PATH:[^\s]+/ matches at position i of s.
MarkerAt(s, i) ==
  /\ i + Len(MarkerPrefix) <= Len(s)
  /\ SubSeq(s, i, i + Len(MarkerPrefix) - 1) = MarkerPrefix
  /\ s[i + Len(MarkerPrefix)] # " "

\* The first position from i on that holds a space, and the first that
\* holds none; Len(s) + 1 when there is no such position.
SkipNonSpaces(s, i) ==
  CHOOSE k \in i..(Len(s) + 1) :
    /\ k > Len(s) \/ s[k] = " "
    /\ \A j \in i..(k - 1) : s[j] # " "

SkipSpaces(s, i) ==
  CHOOSE k \in i..(Len(s) + 1) :
    /\ k > Len(s) \/ s[k] # " "
    /\ \A j \in i..(k - 1) : s[j] = " "

\* The positions of s that /FILE_PATH:[^\s]+\s*/g matches: from the start
\* of a marker through the spaces after it.
MarkerPositions(s) ==
  UNION { i..(SkipSpaces(s, SkipNonSpaces(s, i + Len(MarkerPrefix))) - 1) :
            i \in {k \in 1..Len(s) : MarkerAt(s, k)} }

\* content.replace(/FILE_PATH:[^\s]+\s*/g, '')
RemoveMarkers(s) ==
  LET matched == MarkerPositions(s)
      kept == SelectSeq([i \in 1..Len(s) |-> <<i, s[i]>>],
                        LAMBDA p : p[1] \notin matched)
  IN  [j \in 1..Len(kept) |-> kept[j][2]]

\* String.prototype.lastIndexOf for one character, counted from 0; -1 when
\* the character does not occur.
LastIndexOf(s, c) ==
  LET found == {i \in 1..Len(s) : s[i] = c}
  IN  IF found = {} THEN -1
      ELSE (CHOOSE i \in found : \A j \in found : j <= i) - 1

\* String.prototype.substring(0, end)
Substring(s, end) == SubSeq(s, 1, IF end > Len(s) THEN Len(s) ELSE end)

\* A formatter that cuts at the limit and then appends the ellipsis.
formatForTwitterNoRoom(content) ==
  LET tweet == Trim(RemoveMarkers(content))
  IN  IF Len(tweet) > MaxContentLength
      THEN Substring(tweet, MaxContentLength) \o Ellipsis
      ELSE tweet

\* formatForTwitter(content, type)
formatForTwitter(content) ==
  LET tweet == Trim(RemoveMarkers(content))
      truncated == Substring(tweet, MaxContentLength - EllipsisLength)
      lastSentence == LastIndexOf(truncated, ".")
      lastSpace == LastIndexOf(truncated, " ")
  IN  IF Len(tweet) > MaxContentLength
      THEN IF lastSentence * 10 > MaxContentLength * 7
           THEN Substring(truncated, lastSentence + 1)
           ELSE IF lastSpace * 10 > MaxContentLength * 8
           THEN Substring(truncated, lastSpace) \o Ellipsis
           ELSE truncated \o Ellipsis
      ELSE tweet

\* The contents: n characters, letters but for a full stop at position dot
\* and a space at position space (0: none), after a lead.
Filled(n, dot, space) ==
  [i \in 1..n |-> IF i = dot THEN "." ELSE IF i = space THEN " " ELSE "a"]

FormatLengths == {5, 279, 280, 281, 300}
DotPositions == {0, 197, 198, 277, 278}
SpacePositions == {0, 225, 226, 276}
Leads == { <<>>, <<" ">>, MarkerPrefix \o <<"x", " ">> }

FormatInputs ==
  { lead \o Filled(n, dot, space) :
      lead \in Leads, n \in FormatLengths, dot \in DotPositions,
      space \in SpacePositions }

\* A call of formatForTwitter.
FormatForTwitter(content) ==
  /\ formatted.calls < MaxFormatCalls
  /\ formatted' = [content |-> content,
                   tweetContent |-> formatForTwitter(content),
                   calls |-> formatted.calls + 1]
  /\ UNCHANGED <<gateVars, sandboxVars, memoryVars, persistVars, context,
                 cyclePc, isRunning, maxActionsPerCycle, actionsThisCycle,
                 actionPlan, actionOutcome, cycles, cycleLog, shutdownVars,
                 thought, thoughtType, response, directive, loading,
                 walk>>

FormatNext == \E content \in FormatInputs : FormatForTwitter(content)

InitFormat == GateInit /\ SandboxInit /\ MemoryEmpty /\ LoopOff

\* formatForTwitter over the contents.
SpecFormat == InitFormat /\ [][FormatNext]_vars

(***************************************************************************)
(* formatForTwitter's claim.                                               *)
(***************************************************************************)
\* The largest of a set of positions that is not empty.
LastOf(positions) == CHOOSE i \in positions : \A j \in positions : j <= i

\* The positions of the character c among the first 277 of text.
PositionsIn(text, c) ==
  {i \in 1..(MaxContentLength - EllipsisLength) : i <= Len(text) /\ text[i] = c}

\* sent is what the rule of the cut makes of text: text itself when it has
\* at most 280 characters; else its first 277 characters cut after their
\* last full stop when that one lies beyond 70% of 280 (counted from 0),
\* else cut before their last space when that one lies beyond 80% of 280
\* and followed by an ellipsis, else whole and followed by an ellipsis.
CutAsStated(text, sent) ==
  LET dots == PositionsIn(text, ".")
      spaces == PositionsIn(text, " ")
  IN  /\ Len(sent) <= MaxContentLength
      /\ Len(text) <= MaxContentLength => sent = text
      /\ Len(text) > MaxContentLength
           => IF dots # {} /\ (LastOf(dots) - 1) * 10 > MaxContentLength * 7
              THEN sent = SubSeq(text, 1, LastOf(dots))
              ELSE IF spaces # {}
                        /\ (LastOf(spaces) - 1) * 10 > MaxContentLength * 8
              THEN sent = SubSeq(text, 1, LastOf(spaces) - 1) \o Ellipsis
              ELSE sent = SubSeq(text, 1, MaxContentLength - EllipsisLength)
                            \o Ellipsis

\* C36 as stated: the rule applies to the content with its FILE_PATH
\* markers removed.
C36_FormatAsStated ==
  formatted.calls > 0
    => CutAsStated(RemoveMarkers(formatted.content), formatted.tweetContent)

\* C36: emit formatting. The text handed to the transport has at most 280
\* characters, and it is what the rule of the cut makes of the content with
\* its FILE_PATH markers removed and the whitespace at its two ends
\* trimmed.
C36_Format ==
  formatted.calls > 0
    => CutAsStated(Trim(RemoveMarkers(formatted.content)),
                   formatted.tweetContent)

\* C36's case: a content that starts with a marker, and whose text is
\* longer than 280 characters, has been cut before its last space and given
\* an ellipsis.
C36_Witness ==
  /\ formatted.calls > 0
  /\ MarkerAt(formatted.content, 1)
  /\ Len(Trim(RemoveMarkers(formatted.content))) > MaxContentLength
  /\ Len(formatted.tweetContent) = 228
  /\ SubSeq(formatted.tweetContent, 226, 228) = Ellipsis
  /\ formatted.tweetContent[225] = "a"

(***************************************************************************)
(* getWorkspaceInfo and the recursion of getDirectoryStats, call by call.  *)
(* The stack holds one frame for every getDirectoryStats call under way.   *)
(***************************************************************************)
\* fs.readdir(dirPath): the entries of the directory.
Readdir(f, dirPath) == {p \in DOMAIN f : p # dirPath /\ Dirname(p) = dirPath}

\* getDirectoryStats(dirPath) is entered: the counters and the items read.
NewFrame(dirPath) ==
  [dirPath |-> dirPath, items |-> Readdir(fs, dirPath), fileCount |-> 0,
   dirCount |-> 0, totalSize |-> 0]

\* A walk that forgets the directories below a subdirectory.
AddSubStatsFilesOnly(frame, subStats) ==
  [frame EXCEPT !.fileCount = @ + subStats.fileCount,
                !.totalSize = @ + subStats.totalSize]

\* fileCount += subStats.fileCount; dirCount += subStats.dirCount;
\* totalSize += subStats.totalSize
AddSubStats(frame, subStats) ==
  [frame EXCEPT !.fileCount = @ + subStats.fileCount,
                !.dirCount = @ + subStats.dirCount,
                !.totalSize = @ + subStats.totalSize]

\* getWorkspaceInfo() is called: getDirectoryStats(this.sandboxPath) reads
\* the root, and a readdir that rejects is caught.
WalkStart ==
  /\ walk.pc = "idle"
  /\ walk' = IF IsDir(fs, SandboxPath)
             THEN [pc |-> "walking", stack |-> <<NewFrame(SandboxPath)>>,
                   result |-> NoStats]
             ELSE [pc |-> "done", stack |-> <<>>, result |-> NoStats]
  /\ UNCHANGED <<gateVars, sandboxVars, memoryVars, persistVars, context,
                 cyclePc, isRunning, maxActionsPerCycle, actionsThisCycle,
                 actionPlan, actionOutcome, cycles, cycleLog, shutdownVars,
                 thought, thoughtType, response, directive, formatted,
                 loading>>

\* One turn of "for (const item of items)" in the innermost call: a
\* directory is counted and entered, any other item is counted and its
\* size added.  The items are taken in one order, that of the readdir.
WalkItem ==
  /\ walk.pc = "walking"
  /\ LET top == Len(walk.stack)
         frame == walk.stack[top]
     IN  /\ frame.items # {}
         /\ \E item \in {CHOOSE i \in frame.items : TRUE} :
              walk' =
                IF IsDir(fs, item)
                THEN [walk EXCEPT
                        !.stack =
                          Append([walk.stack EXCEPT
                                    ![top].items = @ \ {item},
                                    ![top].dirCount = @ + 1],
                                 NewFrame(item))]
                ELSE [walk EXCEPT
                        !.stack[top].items = @ \ {item},
                        !.stack[top].fileCount = @ + 1,
                        !.stack[top].totalSize = @ + fs[item].size]
  /\ UNCHANGED <<gateVars, sandboxVars, memoryVars, persistVars, context,
                 cyclePc, isRunning, maxActionsPerCycle, actionsThisCycle,
                 actionPlan, actionOutcome, cycles, cycleLog, shutdownVars,
                 thought, thoughtType, response, directive, formatted,
                 loading>>

\* The innermost call has gone through its items and returns its counters:
\* to the call that awaits them, or to getWorkspaceInfo.
WalkReturn ==
  /\ walk.pc = "walking"
  /\ LET top == Len(walk.stack)
         frame == walk.stack[top]
         subStats == [fileCount |-> frame.fileCount,
                      dirCount |-> frame.dirCount,
                      totalSize |-> frame.totalSize]
     IN  /\ frame.items = {}
         /\ walk' =
              IF top = 1
              THEN [pc |-> "done", stack |-> <<>>,
                    result |-> [success |-> TRUE,
                                fileCount |-> subStats.fileCount,
                                dirCount |-> subStats.dirCount,
                                totalSize |-> subStats.totalSize]]
              ELSE [walk EXCEPT
                      !.stack =
                        [SubSeq(walk.stack, 1, top - 1) EXCEPT
                           ![top - 1] = AddSubStats(@, subStats)]]
  /\ UNCHANGED <<gateVars, sandboxVars, memoryVars, persistVars, context,
                 cyclePc, isRunning, maxActionsPerCycle, actionsThisCycle,
                 actionPlan, actionOutcome, cycles, cycleLog, shutdownVars,
                 thought, thoughtType, response, directive, formatted,
                 loading>>

WalkNext == WalkItem \/ WalkReturn

\* The operations that make the tree, and then the walk.
WorkspaceNext ==
  \/ \E filePath \in PathInputs, content \in ContentInputs :
       walk.pc = "idle" /\ CreateFile(filePath, content)
  \/ \E dirPath \in PathInputs : walk.pc = "idle" /\ CreateDirectory(dirPath)
  \/ \E filePath \in PathInputs : walk.pc = "idle" /\ DeleteFile(filePath)
  \/ WalkStart
  \/ WalkNext

InitWorkspace == GateOff /\ SandboxInit /\ MemoryEmpty /\ LoopOff

SpecWorkspace == InitWorkspace /\ [][WorkspaceNext]_vars

\* The walk when readdir and stat answer.
SpecWorkspaceFair == SpecWorkspace /\ WF_vars(WalkNext)

(***************************************************************************)
(* The walk's claim.                                                       *)
(***************************************************************************)
\* The paths below the sandbox root.
BelowRoot == {p \in DOMAIN fs : p # SandboxPath /\ IsWithin(p, SandboxPath)}

\* C37: the walk. A getWorkspaceInfo that has been called returns; when
\* the root is a directory it returns, for fileCount, the number of
\* entries below the root that are no directories, for dirCount the number
\* of directories below the root, and for totalSize the sum of the sizes
\* of the files.
C37_Walk ==
  /\ [](walk.pc = "done"
          => /\ walk.result.success = IsDir(fs, SandboxPath)
             /\ walk.result.success
                  => /\ walk.result.fileCount =
                          Cardinality({p \in BelowRoot : ~IsDir(fs, p)})
                     /\ walk.result.dirCount =
                          Cardinality({p \in BelowRoot : IsDir(fs, p)})
                     /\ walk.result.totalSize = TotalSize(fs, BelowRoot))
  /\ (walk.pc = "walking") ~> (walk.pc = "done")

\* C37's case: the walk has returned from a tree with two files of
\* different sizes and a directory inside one of the four directories.
C37_Witness ==
  /\ walk.pc = "done"
  /\ walk.result.success
  /\ walk.result.fileCount = 2
  /\ walk.result.dirCount >= 4
  /\ walk.result.totalSize > MaxFileSize

(***************************************************************************)
(* The recording of actions.                                               *)
(***************************************************************************)
\* The action records of a buffer, in its order.
ActionsOf(buffer) == SelectSeq(buffer, LAMBDA r : r.type = "action")

LoadPending == [pc |-> "loading", read |-> 0]

\* The store after the k-th resource is read: it replaces its store when
\* the resource exists.
LoadedStore(k) ==
  /\ longTermMemory' =
       IF k = 1 /\ disk.longTerm.exists THEN ReadJson(disk.longTerm)
       ELSE longTermMemory
  /\ experiences' =
       IF k = 2 /\ disk.experiences.exists THEN ReadJson(disk.experiences)
       ELSE experiences
  /\ projects' =
       IF k = 3 /\ disk.projects.exists THEN ReadJson(disk.projects)
       ELSE projects

\* The pending load's next await resolves: the resource is read and
\* assigned; after the third the load is complete.
LoadStep ==
  /\ loading.pc = "loading"
  /\ LoadedStore(loading.read + 1)
  /\ loading' = [pc |-> IF loading.read + 1 = 3 THEN "done" ELSE "loading",
                 read |-> loading.read + 1]
  /\ UNCHANGED <<sessionMemory, memoryOp, memoryCalls, projectOp,
                 persistVars, gateVars, sandboxVars, context, cyclePc,
                 isRunning, maxActionsPerCycle, actionsThisCycle, actionPlan,
                 actionOutcome, cycles, cycleLog, shutdownVars, thought,
                 thoughtType, response, directive, formatted, walk>>

\* The pending load's readJson rejects: loadMemories' catch logs the error
\* and the load is complete with the resources read so far.
LoadStepFails ==
  /\ loading.pc = "loading"
  /\ Resource(loading.read + 1).exists
  /\ loading' = [loading EXCEPT !.pc = "done"]
  /\ UNCHANGED <<memoryVars, persistVars, gateVars, sandboxVars, context,
                 cyclePc, isRunning, maxActionsPerCycle, actionsThisCycle,
                 actionPlan, actionOutcome, cycles, cycleLog, shutdownVars,
                 thought, thoughtType, response, directive, formatted, walk>>

\* The store's calls that run while the load is pending, and after it.
RaceNext ==
  \/ LoadStep
  \/ LoadStepFails
  \/ \E outcome \in {"success", "failure"} :
       /\ memoryCalls < MaxRaceCalls
       /\ addAction("write_poem", outcome)
       /\ UNCHANGED <<longTermMemory, projects, projectOp, gateVars,
                      sandboxVars, persistVars, loopVars>>
  \/ /\ memoryCalls < MaxRaceCalls
     /\ AddProject("alpha", "active")
  \/ /\ memoryOp.consolidations < MaxRaceConsolidations
     /\ consolidateMemories
     /\ UNCHANGED <<sessionMemory, experiences, projects, memoryCalls,
                    projectOp, gateVars, sandboxVars, persistVars, loopVars>>

InitRace ==
  /\ GateOff
  /\ SandboxInit
  /\ MemoryConstructed
  /\ LoopInit
  /\ maxActionsPerCycle = 1
  /\ thought = <<>>
  /\ thoughtType = "none"
  /\ response = <<>>
  /\ directive = NoDirective
  /\ formatted = NoFormat
  /\ walk = NoWalk
  /\ loading = LoadPending

\* The store from its construction on, its load pending.
SpecRace == InitRace /\ [][RaceNext]_vars

\* C39: the load and the store's calls. A step of the pending load loses
\* no record of the experience log, of the registry or of the archive:
\* every record a store holds before the step it holds after it.
C39_NoRecordLost ==
  [][ loading' # loading
        => /\ RecordsOf(experiences) \subseteq RecordsOf(experiences')
           /\ RecordsOf(projects) \subseteq RecordsOf(projects')
           /\ RecordsOf(longTermMemory) \subseteq RecordsOf(longTermMemory')
    ]_vars

\* C39's case: the load is complete and an action record, a project and an
\* archive record added while it was pending are still held.
C39_Witness ==
  /\ loading.pc = "done"
  /\ \E i \in DOMAIN experiences : experiences[i].seq > 0
  /\ projects # <<>>
  /\ \E i \in DOMAIN longTermMemory : longTermMemory[i].seq > 0

(***************************************************************************)
(* The sandbox root.                                                       *)
(***************************************************************************)
\* The file operations that take a path.
PathOperations ==
  {"createFile", "updateFile", "deleteFile", "createDirectory", "listFiles"}

\* C40: the sandbox root survives. A createFile, updateFile, deleteFile,
\* createDirectory or listFiles call, whatever its path, that finds the
\* sandbox root a directory leaves it a directory.
C40_RootSurvives ==
  [][ (/\ sandboxCalls' # sandboxCalls
       /\ sandboxOp'.op \in PathOperations
       /\ IsDir(fs, SandboxPath))
        => IsDir(fs', SandboxPath)
    ]_vars

====
